---- MODULE Spec2Model ----
(***************************************************************************)
(* A model of the Linux ProcessMonitor of lldb                             *)
(* (src/source/Host/android/LibcGlue.cpp, "ProcessMonitor.cpp" part).      *)
(*                                                                         *)
(* Spec / FairSpec : the operation funnel (DoOperation / ServeOperation),  *)
(*                   the constructor's rendezvous with the operation       *)
(*                   thread, and StopMonitor / StopOpThread.               *)
(* MemSpec         : DoReadMemory / DoWriteMemory over a byte-addressed    *)
(*                   inferior memory reached by word-sized PEEK / POKE.    *)
(***************************************************************************)
EXTENDS Integers, Sequences, FiniteSets, TLC

----------------------------------------------------------------------------
(* Bounds of the model.                                                    *)

\* number of operational API calls made over a run
MaxOps == 2
\* number of times a sem_wait is interrupted (EINTR) over a run
MaxEintr == 1

----------------------------------------------------------------------------
(* Threads.                                                                *)

\* the thread that constructs the ProcessMonitor and later calls StopMonitor
MainThread == "main"
\* the operation thread ("lldb.process.linux.operation")
OwnerThread == "owner"
\* the thread started by Host::StartMonitoringChildProcess
MonitorThread == "monitor"
\* a debugger thread that calls the operational API (the monitor thread is
\* the second, concurrent, user of the funnel)
CallerThreads == {"t1"}
\* every thread that can enter DoOperation with an Operation object
Clients == CallerThreads \cup {MonitorThread}
\* every thread that can enter DoOperation
Funnelers == Clients \cup {MainThread}

\* static Operation* EXIT_OPERATION = nullptr;
EXIT_OPERATION == [id |-> 0, kind |-> "nullptr"]

\* the kinds of Operation an API call builds, with the trace request its
\* Execute issues
OpKinds == {"ReadOperation", "DetachOperation"}
\* the Operations MonitorCallback submits (GetSignalInfo, Resume)
MonitorOpKinds == {"SiginfoOperation", "ResumeOperation"}

KindsOf(t) == IF t = MonitorThread THEN MonitorOpKinds ELSE OpKinds

RequestOf(kind) ==
    CASE kind = "ReadOperation"    -> "PTRACE_PEEKDATA"
      [] kind = "ResumeOperation"  -> "PTRACE_CONT"
      [] kind = "DetachOperation"  -> "PT_DETACH"
      [] kind = "SiginfoOperation" -> "PTRACE_GETSIGINFO"

VARIABLES
    pc,                 \* position of main, the callers and the monitor thread
    ownerPc,            \* position of the operation thread
    m_operation_thread, \* "invalid" | "joinable"
    m_monitor_thread,   \* "invalid" | "joinable"
    m_operation_mutex,  \* the thread holding the mutex, or "free"
    m_operation,        \* the operation slot
    m_operation_pending,\* semaphore count
    m_operation_done,   \* semaphore count
    sems_destroyed,     \* sem_destroy was called on both semaphores
    args_semaphore,     \* OperationArgs::m_semaphore
    args_error,         \* OperationArgs::m_error is a failure
    error,              \* the constructor's error out-parameter
    myOp,               \* the Operation each thread passed to DoOperation
    stopOpFrom,         \* who called StopOpThread: "ctor" | "StopMonitor" | "none"
    monitorStop,        \* SIGUSR1 was sent to the monitor thread
    crashed,            \* the debugger process died (undefined behaviour)
    nextId,             \* history: number of API calls made so far
    eintr,              \* history: number of interrupted sem_waits so far
    lockOrder,          \* history: ops in the order their callers got the mutex
    execOrder,          \* history: ops in the order Execute was entered
    executing,          \* history: ops whose Execute is running, with the thread
    execCount,          \* history: how often each op was executed
    traceIssued,        \* history: <<thread, request>> of every trace request
    afterStop,          \* history: the call of this thread began after StopMonitor
    mem,                \* the inferior's memory: a byte for every mapped address
    phase,              \* MemSpec: "idle" | "start" | "written" | "ran" | "read"
    wr,                 \* MemSpec: the last WriteMemory, its inputs and results
    rd,                 \* MemSpec: the last ReadMemory, its inputs and results
    ndebug,             \* the build defines NDEBUG: assert() expands to nothing
    cb,                 \* WaitSpec: the last MonitorCallback, inputs and results
    cl,                 \* CloneSpec: the stops not yet waited for, the messages
                        \* sent and the threads whose initial stop was seen
    boot,               \* AttachSpec, LaunchSpec: the bootstrap on the operation
                        \* thread, Attach(args) or Launch(args)
    rg,                 \* RegSpec: the registers of a stopped thread and the
                        \* register operations made on them
    jit                 \* JitSpec: the JIT loader, its breakpoint and its map

vars == <<pc, ownerPc, m_operation_thread, m_monitor_thread, m_operation_mutex,
          m_operation, m_operation_pending, m_operation_done, sems_destroyed,
          args_semaphore, args_error, error, myOp, stopOpFrom, monitorStop, crashed, nextId,
          eintr, lockOrder, execOrder, executing, execCount, traceIssued,
          afterStop, mem, phase, wr, rd, ndebug, cb, cl, boot, rg, jit>>

memVars == <<mem, phase, wr, rd>>
waitVars == <<ndebug, cb, cl, boot, rg, jit>>

funnelVars == <<m_operation_mutex, m_operation, m_operation_pending,
                m_operation_done, myOp>>
ctorVars == <<m_operation_thread, m_monitor_thread, sems_destroyed,
              args_semaphore, args_error, error, stopOpFrom, monitorStop>>
histVars == <<nextId, eintr, lockOrder, execOrder, executing, execCount,
              traceIssued, afterStop>>

NoOp == [id |-> -1, kind |-> "none"]

\* the process dies: no thread takes another step
ProcessDies ==
    /\ crashed' = TRUE
    /\ pc' = [t \in Funnelers |-> "dead"]
    /\ ownerPc' = "dead"

\* the state right after the constructor's member initialisers
FunnelInit ==
    /\ pc = [t \in Funnelers |->
                IF t = MainThread THEN "ctor_start"
                ELSE IF t = MonitorThread THEN "notstarted" ELSE "idle"]
    /\ ownerPc = "notstarted"
    /\ m_operation_thread = "invalid"
    /\ m_monitor_thread = "invalid"
    /\ m_operation_mutex = "free"
    /\ m_operation = EXIT_OPERATION
    /\ m_operation_pending = 0
    /\ m_operation_done = 0
    /\ sems_destroyed = FALSE
    /\ args_semaphore = 0
    /\ args_error = FALSE
    /\ error = "none"
    /\ myOp = [t \in Funnelers |-> NoOp]
    /\ stopOpFrom = "none"
    /\ monitorStop = FALSE
    /\ crashed = FALSE
    /\ nextId = 0
    /\ eintr = 0
    /\ lockOrder = <<>>
    /\ execOrder = <<>>
    /\ executing = {}
    /\ execCount = [i \in 1..MaxOps |-> 0]
    /\ traceIssued = {}
    /\ afterStop = [t \in Clients |-> FALSE]

\* a wake-up of the monitor thread as MonitorCallback sees it: its arguments
\* (pid, exited, status) and what the kernel answers to the requests the
\* callback makes of it
NoWakeUp == [pid |-> 0, exited |-> FALSE, status |-> 0, avail |-> "ok",
             si_signo |-> 0, si_code |-> 0, si_pid |-> 0, si_addr |-> 0,
             evOk |-> TRUE, evData |-> <<>>, resumeOk |-> TRUE]

NoCallback == [valid |-> FALSE, in |-> NoWakeUp, msgs |-> <<>>, ops |-> <<>>,
               stop |-> FALSE, aborted |-> FALSE]

\* the monitor thread's part of a state of the other specifications
\* no thread was cloned, nothing is pending and nothing was sent
NoClone ==
    [pending |-> {}, trapped |-> {}, stopped |-> {}, sent |-> <<>>,
     initialStops |-> {}, threads |-> {}, stopSeen |-> {},
     trapByMonitor |-> {}, trapByStopper |-> {},
     waiting |-> [monitor |-> 0, stopper |-> 0],
     stopTid |-> 0, stops |-> 0, resumed |-> {},
     order |-> <<>>, held |-> [monitor |-> 0, stopper |-> 0],
     sentFor |-> <<>>, tkill |-> 0, sendFailed |-> FALSE,
     turn |-> [valid |-> FALSE, in |-> NoWakeUp, tid |-> 0, msgs |-> <<>>,
               ops |-> <<>>, ret |-> "again", asserted |-> FALSE,
               unreachable |-> FALSE, thread |-> FALSE]]

\* no bootstrap is followed
NoBoot == [mode |-> "none"]

\* no register operation and no JIT loader is followed
NoRegs == [mode |-> "none"]
NoJit == [mode |-> "none"]

WaitQuiet ==
    /\ ndebug = TRUE
    /\ cb = NoCallback
    /\ cl = NoClone
    /\ boot = NoBoot
    /\ rg = NoRegs
    /\ jit = NoJit

----------------------------------------------------------------------------
(* The inferior's memory and the trace requests that reach it.             *)

\* static const unsigned word_size = sizeof(void*): a 32-bit host
word_size == 4
\* the mapped, writable part of the inferior is [0, word_size * MemWords)
MemWords == 3
\* the largest size of a ReadMemory / WriteMemory
MaxSize == 5
\* the n-th trace request of an operation can be made to fail, n <= MaxFailAt
MaxFailAt == 2

MemSize == word_size * MemWords
Mapped == 0..(MemSize - 1)
\* the addresses a caller may pass: mapped ones and some beyond the mapping
Addrs == 0..(MemSize + 1)

\* what a buffer byte holds before anything was copied into it
Unset == -1

\* the bytes the caller passes to WriteMemory: all different, and none equal
\* to a byte of the initial memories
WriteBytes(seed, n) == [i \in 1..n |-> seed + i]
Seeds == {160}

\* the initial memory: every byte different
InitialMemories == {[a \in Mapped |-> a + 1]}

RECURSIVE BitOr(_, _, _)
\* a | b on the low `bits` bits
BitOr(a, b, bits) ==
    IF bits = 0 THEN 0
    ELSE (IF (a % 2 = 1) \/ (b % 2 = 1) THEN 1 ELSE 0)
         + 2 * BitOr(a \div 2, b \div 2, bits - 1)

\* A long is held as its word_size base-256 digits, least significant first:
\* digit i+1 is (data >> i*8) & 0xFF.
ZeroWord == [i \in 1..word_size |-> 0]

\* the mutant: the bytes of the word taken most significant first
ShiftMaskReversed(data, i) == data[word_size - i]

\* (data >> i*8) & 0xFF
ShiftMask(data, i) == data[i + 1]

\* data |= (unsigned long)b << i*8
OrShifted(data, b, i) == [data EXCEPT ![i + 1] = BitOr(@, b, 8)]

\* the word the kernel reads at addr: the host is little-endian (x86, x86_64,
\* arm, arm64 as built for Linux and Android), so the byte at addr is the
\* least significant
WordAt(m, addr) == [i \in 1..word_size |-> m[addr + i - 1]]

\* the memory after the kernel stored the word at addr
StoreWord(m, addr, data) ==
    [a \in DOMAIN m |->
        IF a >= addr /\ a < addr + word_size THEN data[a - addr + 1] ELSE m[a]]

WordMapped(addr) == \A i \in 0..(word_size - 1) : (addr + i) \in Mapped

\* The tracee as a trace request sees it: st.mem the memory, st.log the
\* requests issued so far, st.failAt the number of requests until one fails
\* with ESRCH (0: none does).
\* errno after the request: 0, "EIO" (the word is not mapped) or "ESRCH".
ErrnoOf(st, addr) ==
    IF st.failAt = 1 THEN "ESRCH"
    ELSE IF ~WordMapped(addr) THEN "EIO"
    ELSE "ok"

Logged(st, req, addr, errno) ==
    [st EXCEPT !.log = Append(@, [req |-> req, addr |-> addr, errno |-> errno]),
               !.failAt = IF @ > 0 THEN @ - 1 ELSE 0]

\* PTRACE(PTRACE_PEEKDATA, pid, vm_addr, NULL, 0): the tracee afterwards, the
\* errno and the word returned (-1, all bits set, on failure)
PeekData(st, addr) ==
    LET e == ErrnoOf(st, addr)
    IN  [st |-> Logged(st, "PTRACE_PEEKDATA", addr, e),
         errno |-> e,
         data |-> IF e = "ok" THEN WordAt(st.mem, addr)
                  ELSE [i \in 1..word_size |-> 255]]

\* PTRACE(PTRACE_POKEDATA, pid, vm_addr, data, 0)
PokeData(st, addr, data) ==
    LET e == ErrnoOf(st, addr)
        logged == Logged(st, "PTRACE_POKEDATA", addr, e)
    IN  [st |-> IF e = "ok"
                THEN [logged EXCEPT !.mem = StoreWord(st.mem, addr, data)]
                ELSE logged,
         errno |-> e]

Min(a, b) == IF a < b THEN a ELSE b

\* dst[i] = ((data >> i*8) & 0xFF) for i < remainder, dst at offset off of buf
CopyOut(buf, off, data, remainder) ==
    [k \in 1..Len(buf) |->
        IF k > off /\ k <= off + remainder THEN ShiftMask(data, k - off - 1)
        ELSE buf[k]]

RECURSIVE ReadLoop(_, _, _, _, _, _)

\* the mutant: the word whose peek failed is counted as read
ReadLoopCountsFailed(st, vm_addr, buf, size, bytes_read, err) ==
    IF ~(bytes_read < size)
    THEN [st |-> st, buf |-> buf, n |-> bytes_read, error |-> err]
    ELSE LET p == PeekData(st, vm_addr)
             remainder == Min(size - bytes_read, word_size)
         IN  IF p.errno # "ok"
             THEN [st |-> p.st, buf |-> buf, n |-> bytes_read + remainder,
                   error |-> p.errno]
             ELSE ReadLoop(p.st, vm_addr + word_size,
                           CopyOut(buf, bytes_read, p.data, remainder),
                           size, bytes_read + remainder, err)

\* the for loop of DoReadMemory, from bytes_read on
ReadLoop(st, vm_addr, buf, size, bytes_read, err) ==
    IF ~(bytes_read < size)
    THEN [st |-> st, buf |-> buf, n |-> bytes_read, error |-> err]
    ELSE LET p == PeekData(st, vm_addr)
             remainder == Min(size - bytes_read, word_size)
         IN  IF p.errno # "ok"
             THEN [st |-> p.st, buf |-> buf, n |-> bytes_read, error |-> p.errno]
             ELSE ReadLoop(p.st, vm_addr + word_size,
                           CopyOut(buf, bytes_read, p.data, remainder),
                           size, bytes_read + remainder, err)

\* static size_t DoReadMemory(pid, vm_addr, buf, size, err)
DoReadMemory(st, vm_addr, buf, size, err) ==
    ReadLoop(st, vm_addr, buf, size, 0, err)

RECURSIVE PackWord(_, _, _, _)
\* for (i = 0; i < word_size; ++i) data |= (unsigned long)src[i] << i*8;
PackWord(data, src, off, i) ==
    IF i = word_size THEN data
    ELSE PackWord(OrShifted(data, src[off + i + 1], i), src, off, i + 1)

\* the mutant: the overlay lands at the end of the word read
OverlayAtEnd(buff, src, off, remainder) ==
    [k \in 1..Len(buff) |->
        IF k > Len(buff) - remainder THEN src[off + k - (Len(buff) - remainder)]
        ELSE buff[k]]

\* memcpy(buff, src, remainder), src at offset off
Overlay(buff, src, off, remainder) ==
    [k \in 1..Len(buff) |-> IF k <= remainder THEN src[off + k] ELSE buff[k]]

\* the mutant: the trailing bytes are written as a full word taken from the
\* caller's buffer, zero where the buffer ends, without reading the target
PartialWordNoRead(st, vm_addr, src, off, remainder, err) ==
    LET data == [i \in 1..word_size |->
                    IF i <= remainder THEN src[off + i] ELSE 0]
        k == PokeData(st, vm_addr, data)
    IN  [st |-> k.st, ok |-> (k.errno = "ok"),
         error |-> IF k.errno = "ok" THEN err ELSE k.errno]

RECURSIVE WriteLoop(_, _, _, _, _, _)

\* the else branch of DoWriteMemory: DoReadMemory of the word into buff,
\* memcpy of the remaining bytes over it, DoWriteMemory of the word
PartialWord(st, vm_addr, src, off, remainder, err) ==
    LET r == DoReadMemory(st, vm_addr, [i \in 1..word_size |-> Unset],
                          word_size, err)
    IN  IF r.n # word_size
        THEN [st |-> r.st, ok |-> FALSE, error |-> r.error]
        ELSE LET w == WriteLoop(r.st, vm_addr,
                                Overlay(r.buf, src, off, remainder),
                                word_size, 0, r.error)
             IN  [st |-> w.st, ok |-> (w.n = word_size), error |-> w.error]

\* the mutant: the word whose request failed is counted as written
WriteLoopCountsFailed(st, vm_addr, src, size, bytes_written, err) ==
    IF ~(bytes_written < size)
    THEN [st |-> st, n |-> bytes_written, error |-> err]
    ELSE LET remainder == Min(size - bytes_written, word_size)
         IN  IF remainder = word_size
             THEN LET k == PokeData(st, vm_addr,
                                    PackWord(ZeroWord, src, bytes_written, 0))
                  IN  IF k.errno # "ok"
                      THEN [st |-> k.st, n |-> bytes_written + remainder,
                            error |-> k.errno]
                      ELSE WriteLoop(k.st, vm_addr + word_size, src, size,
                                     bytes_written + remainder, err)
             ELSE LET q == PartialWord(st, vm_addr, src, bytes_written,
                                       remainder, err)
                  IN  IF ~q.ok
                      THEN [st |-> q.st, n |-> bytes_written + remainder,
                            error |-> q.error]
                      ELSE WriteLoop(q.st, vm_addr + word_size, src, size,
                                     bytes_written + remainder, q.error)

\* the for loop of DoWriteMemory, from bytes_written on; src is read at
\* offset bytes_written
WriteLoop(st, vm_addr, src, size, bytes_written, err) ==
    IF ~(bytes_written < size)
    THEN [st |-> st, n |-> bytes_written, error |-> err]
    ELSE LET remainder == Min(size - bytes_written, word_size)
         IN  IF remainder = word_size
             THEN LET k == PokeData(st, vm_addr,
                                    PackWord(ZeroWord, src, bytes_written, 0))
                  IN  IF k.errno # "ok"
                      THEN [st |-> k.st, n |-> bytes_written, error |-> k.errno]
                      ELSE WriteLoop(k.st, vm_addr + word_size, src, size,
                                     bytes_written + remainder, err)
             ELSE LET q == PartialWord(st, vm_addr, src, bytes_written,
                                       remainder, err)
                  IN  IF ~q.ok
                      THEN [st |-> q.st, n |-> bytes_written, error |-> q.error]
                      ELSE WriteLoop(q.st, vm_addr + word_size, src, size,
                                     bytes_written + remainder, q.error)

\* static size_t DoWriteMemory(pid, vm_addr, buf, size, err)
DoWriteMemory(st, vm_addr, src, size, err) ==
    WriteLoop(st, vm_addr, src, size, 0, err)

NoWrite == [valid |-> FALSE, addr |-> 0, size |-> 0, buf |-> <<>>, n |-> 0,
            error |-> "ok", failAt |-> 0, log |-> <<>>,
            before |-> [a \in Mapped |-> 0]]
NoRead == [valid |-> FALSE, addr |-> 0, size |-> 0, buf |-> <<>>, n |-> 0,
           error |-> "ok", failAt |-> 0, log |-> <<>>]

\* the memory part of a state of the funnel's specifications
MemQuiet ==
    /\ mem = [a \in Mapped |-> a + 1]
    /\ phase = "idle"
    /\ wr = NoWrite
    /\ rd = NoRead

\* WriteOperation::Execute: m_result = DoWriteMemory(pid, m_addr, m_buff,
\* m_size, m_error), on an Error that is a success
WriteMemory ==
    /\ phase = "start"
    /\ \E A \in Addrs, n \in 0..MaxSize, seed \in Seeds, f \in 0..MaxFailAt :
          LET B == WriteBytes(seed, n)
              r == DoWriteMemory([mem |-> mem, log |-> <<>>, failAt |-> f],
                                 A, B, n, "ok")
          IN  /\ mem' = r.st.mem
              /\ wr' = [valid |-> TRUE, addr |-> A, size |-> n, buf |-> B,
                        n |-> r.n, error |-> r.error, failAt |-> f,
                        log |-> r.st.log, before |-> mem]
    /\ phase' = "written"
    /\ UNCHANGED <<rd, pc, ownerPc, funnelVars, ctorVars, crashed, histVars,
                   waitVars>>

\* ReadOperation::Execute: m_result = DoReadMemory(pid, m_addr, m_buff,
\* m_size, m_error)
ReadMemory ==
    /\ phase \in {"start", "written", "ran"}
    /\ \E A \in Addrs, n \in 0..MaxSize, f \in 0..MaxFailAt :
          LET r == DoReadMemory([mem |-> mem, log |-> <<>>, failAt |-> f],
                                A, [i \in 1..n |-> Unset], n, "ok")
          IN  rd' = [valid |-> TRUE, addr |-> A, size |-> n, buf |-> r.buf,
                     n |-> r.n, error |-> r.error, failAt |-> f,
                     log |-> r.st.log]
    /\ phase' = "read"
    /\ UNCHANGED <<mem, wr, pc, ownerPc, funnelVars, ctorVars, crashed, histVars,
                   waitVars>>

\* the inferior is resumed and stores to its memory: what was written by the
\* debugger need no longer be there
InferiorRuns ==
    /\ phase = "written"
    /\ \E a \in {0, MemSize - 1} : mem' = [mem EXCEPT ![a] = 0]
    /\ wr' = NoWrite
    /\ phase' = "ran"
    /\ UNCHANGED <<rd, pc, ownerPc, funnelVars, ctorVars, crashed, histVars,
                   waitVars>>

MemInit ==
    /\ FunnelInit
    /\ mem \in InitialMemories
    /\ phase = "start"
    /\ wr = NoWrite
    /\ rd = NoRead
    /\ WaitQuiet

MemNext ==
    \/ WriteMemory
    \/ ReadMemory
    \/ InferiorRuns

MemSpec == MemInit /\ [][MemNext]_vars

Init == FunnelInit /\ MemQuiet /\ WaitQuiet

----------------------------------------------------------------------------
(* The funnel: ProcessMonitor::DoOperation, one step per statement.        *)

\* the constructor has returned: the object is in the hands of its users
CtorReturned == pc[MainThread] \in
    {"constructed", "stopmon_join", "stopop", "do_lock", "do_set", "do_post",
     "do_wait", "do_unlock", "stopop_join", "destroy", "torndown"}

\* the mutant: the operation runs on the calling thread, not through the funnel
ApiCallDirect(t, kind) ==
    /\ pc[t] = "idle"
    /\ t \in CallerThreads => CtorReturned
    /\ nextId < MaxOps
    /\ nextId' = nextId + 1
    /\ execCount' = [execCount EXCEPT ![nextId + 1] = 1]
    /\ traceIssued' = traceIssued \cup {<<t, RequestOf(kind)>>}
    /\ UNCHANGED <<pc, myOp, afterStop, lockOrder, execOrder, executing>>

\* ReadMemory, Resume, Detach, GetSignalInfo ...: build the Operation on the
\* caller's stack and hand it to DoOperation
ApiCall(t, kind) ==
    /\ pc[t] = "idle"
    /\ t \in CallerThreads => CtorReturned
    /\ nextId < MaxOps
    /\ nextId' = nextId + 1
    /\ myOp' = [myOp EXCEPT ![t] = [id |-> nextId + 1, kind |-> kind]]
    /\ afterStop' = [afterStop EXCEPT ![t] = (pc[MainThread] = "torndown")]
    /\ pc' = [pc EXCEPT ![t] = "do_lock"]
    /\ UNCHANGED <<execCount, traceIssued, lockOrder, execOrder, executing>>

Call(t) ==
    /\ \E kind \in KindsOf(t) : ApiCall(t, kind)
    /\ UNCHANGED <<memVars, waitVars, ownerPc, m_operation_mutex, m_operation, m_operation_pending,
                   m_operation_done, ctorVars, crashed, eintr>>

\* the mutant: a lock that excludes nobody
MutexLockNoExclusion(t) ==
    m_operation_mutex' = t

\* Mutex::Locker lock(m_operation_mutex);
MutexLock(t) ==
    /\ m_operation_mutex = "free"
    /\ m_operation_mutex' = t

DoLock(t) ==
    /\ pc[t] = "do_lock"
    /\ MutexLock(t)
    /\ lockOrder' = IF myOp[t] = EXIT_OPERATION THEN lockOrder
                    ELSE Append(lockOrder, myOp[t].id)
    /\ pc' = [pc EXCEPT ![t] = "do_set"]
    /\ UNCHANGED <<memVars, waitVars, ownerPc, m_operation, m_operation_pending, m_operation_done,
                   myOp, ctorVars, crashed, nextId, eintr, execOrder, executing,
                   execCount, traceIssued, afterStop>>

\* m_operation = op;
DoSet(t) ==
    /\ pc[t] = "do_set"
    /\ m_operation' = myOp[t]
    /\ pc' = [pc EXCEPT ![t] = "do_post"]
    /\ UNCHANGED <<memVars, waitVars, ownerPc, m_operation_mutex, m_operation_pending,
                   m_operation_done, myOp, ctorVars, crashed, histVars>>

\* sem_post(&m_operation_pending);
DoPost(t) ==
    /\ pc[t] = "do_post"
    /\ m_operation_pending' = m_operation_pending + 1
    /\ pc' = [pc EXCEPT ![t] = "do_wait"]
    /\ UNCHANGED <<memVars, waitVars, ownerPc, m_operation_mutex, m_operation, m_operation_done,
                   myOp, ctorVars, crashed, histVars>>

\* sem_wait(&m_operation_done) returned 0
DoWait(t) ==
    /\ pc[t] = "do_wait"
    /\ m_operation_done > 0
    /\ m_operation_done' = m_operation_done - 1
    /\ pc' = [pc EXCEPT ![t] = "do_unlock"]
    /\ UNCHANGED <<memVars, waitVars, ownerPc, m_operation_mutex, m_operation, m_operation_pending,
                   myOp, ctorVars, crashed, histVars>>

\* sem_wait(&m_operation_done) returned -1 with errno == EINTR: continue
DoWaitInterrupted(t) ==
    /\ pc[t] = "do_wait"
    /\ eintr < MaxEintr
    /\ eintr' = eintr + 1
    /\ UNCHANGED <<memVars, waitVars, pc, ownerPc, funnelVars, ctorVars, crashed, nextId, lockOrder,
                   execOrder, executing, execCount, traceIssued, afterStop>>

\* a semaphore operation on a destroyed semaphore is undefined: it may work
\* as on a live one (DoPost, DoWait stay enabled) or end the process
DestroyedSemUse(t) ==
    /\ pc[t] \in {"do_post", "do_wait"}
    /\ sems_destroyed
    /\ ProcessDies
    /\ UNCHANGED <<memVars, waitVars, funnelVars, ctorVars, histVars>>

\* the Locker's destructor, and the return to DoOperation's caller
DoUnlock(t) ==
    /\ pc[t] = "do_unlock"
    /\ m_operation_mutex' = "free"
    /\ pc' = [pc EXCEPT ![t] = IF myOp[t] = EXIT_OPERATION THEN "stopop_join"
                                ELSE "idle"]
    /\ UNCHANGED <<memVars, waitVars, ownerPc, m_operation, m_operation_pending, m_operation_done,
                   myOp, ctorVars, crashed, histVars>>

----------------------------------------------------------------------------
(* The operation thread: LaunchOpThread / AttachOpThread / ServeOperation. *)

BootstrapModes == {"launch", "attach"}

\* the trace requests of a bootstrap that succeeds: Launch's child calls
\* PTRACE_TRACEME and the parent SetDefaultPtraceOpts; Attach attaches to each
\* task and sets its options
BootstrapRequests(mode) ==
    IF mode = "launch"
    THEN {<<"child", "PTRACE_TRACEME">>, <<OwnerThread, "PTRACE_SETOPTIONS">>}
    ELSE {<<OwnerThread, "PTRACE_ATTACH">>, <<OwnerThread, "PTRACE_SETOPTIONS">>}

\* Launch / Attach returned true; ServeOperation posts args->m_semaphore
OwnerBootstrapOk ==
    /\ ownerPc = "bootstrap"
    /\ \E mode \in BootstrapModes :
          traceIssued' = traceIssued \cup BootstrapRequests(mode)
    /\ args_semaphore' = args_semaphore + 1
    /\ ownerPc' = "serve_wait"
    /\ UNCHANGED <<memVars, waitVars, pc, funnelVars, m_operation_thread, m_monitor_thread,
                   sems_destroyed, args_error, error, stopOpFrom, monitorStop,
                   crashed, nextId, eintr, lockOrder, execOrder, executing,
                   execCount, afterStop>>

\* the mutant: the operation thread returns from a failed bootstrap without
\* the post
OwnerBootstrapFailsSilently ==
    /\ ownerPc = "bootstrap"
    /\ \E reqs \in {{}, {<<OwnerThread, "PTRACE_ATTACH">>},
                    {<<"child", "PTRACE_TRACEME">>,
                     <<OwnerThread, "PTRACE_SETOPTIONS">>}} :
          traceIssued' = traceIssued \cup reqs
    /\ args_error' = TRUE
    /\ ownerPc' = "returned"
    /\ UNCHANGED <<memVars, waitVars, pc, funnelVars, m_operation_thread, m_monitor_thread,
                   sems_destroyed, args_semaphore, error, stopOpFrom,
                   monitorStop, crashed, nextId, eintr, lockOrder, execOrder,
                   executing, execCount, afterStop>>

\* Launch / Attach returned false: post args->m_semaphore and return NULL.
\* The failure may come before any trace request (fork failed, pid <= 1) or
\* from one (attach, set-options).
OwnerBootstrapFails ==
    /\ ownerPc = "bootstrap"
    /\ \E reqs \in {{}, {<<OwnerThread, "PTRACE_ATTACH">>},
                    {<<"child", "PTRACE_TRACEME">>,
                     <<OwnerThread, "PTRACE_SETOPTIONS">>}} :
          traceIssued' = traceIssued \cup reqs
    /\ args_error' = TRUE
    /\ args_semaphore' = args_semaphore + 1
    /\ ownerPc' = "returned"
    /\ UNCHANGED <<memVars, waitVars, pc, funnelVars, m_operation_thread, m_monitor_thread,
                   sems_destroyed, error, stopOpFrom, monitorStop, crashed,
                   nextId, eintr, lockOrder, execOrder, executing, execCount,
                   afterStop>>

\* sem_wait(&monitor->m_operation_pending) returned 0
ServeWait ==
    /\ ownerPc = "serve_wait"
    /\ m_operation_pending > 0
    /\ m_operation_pending' = m_operation_pending - 1
    /\ ownerPc' = "serve_exec"
    /\ UNCHANGED <<memVars, waitVars, pc, m_operation_mutex, m_operation, m_operation_done, myOp,
                   ctorVars, crashed, histVars>>

\* the mutant: an interrupted wait taken for a wake-up
ServeInterruptedAsWakeup ==
    /\ ownerPc' = "serve_exec"
    /\ eintr' = eintr + 1

\* the mutant: an interrupted wait ends the serve loop
ServeInterruptedLeaves ==
    /\ ownerPc' = "returned"
    /\ eintr' = eintr + 1

\* if (errno == EINTR) continue;
ServeInterrupted ==
    /\ ownerPc' = ownerPc
    /\ eintr' = eintr + 1

\* sem_wait(&monitor->m_operation_pending) returned -1 with errno == EINTR
ServeWaitInterrupted ==
    /\ ownerPc = "serve_wait"
    /\ eintr < MaxEintr
    /\ ServeInterrupted
    /\ UNCHANGED <<memVars, waitVars, pc, funnelVars, ctorVars, crashed, nextId, lockOrder,
                   execOrder, executing, execCount, traceIssued, afterStop>>

\* monitor->m_operation->Execute(monitor), entered: the slot holds an Operation
ServeExecuteBegin ==
    /\ ownerPc = "serve_exec"
    /\ m_operation # EXIT_OPERATION
    /\ execOrder' = Append(execOrder, m_operation.id)
    /\ execCount' = [execCount EXCEPT ![m_operation.id] = @ + 1]
    /\ executing' = executing \cup {<<m_operation.id, OwnerThread>>}
    /\ ownerPc' = "serve_executing"
    /\ UNCHANGED <<memVars, waitVars, pc, funnelVars, ctorVars, crashed, nextId, eintr, lockOrder,
                   traceIssued, afterStop>>

\* Execute issues its trace request and returns
ServeExecuteEnd ==
    /\ ownerPc = "serve_executing"
    /\ traceIssued' = traceIssued \cup {<<OwnerThread, RequestOf(m_operation.kind)>>}
    /\ executing' = executing \ {<<m_operation.id, OwnerThread>>}
    /\ ownerPc' = "serve_post"
    /\ UNCHANGED <<memVars, waitVars, pc, funnelVars, ctorVars, crashed, nextId, eintr, lockOrder,
                   execOrder, execCount, afterStop>>

\* monitor->m_operation->Execute(monitor) with m_operation == EXIT_OPERATION
\* (nullptr): a virtual call through a null pointer.  Undefined: the process
\* dies on the load of the vtable, ...
ServeExecuteNullCrashes ==
    /\ ownerPc = "serve_exec"
    /\ m_operation = EXIT_OPERATION
    /\ ProcessDies
    /\ UNCHANGED <<memVars, waitVars, funnelVars, ctorVars, histVars>>

\* ... or the call comes back and the loop goes on
ServeExecuteNullReturns ==
    /\ ownerPc = "serve_exec"
    /\ m_operation = EXIT_OPERATION
    /\ ownerPc' = "serve_post"
    /\ UNCHANGED <<memVars, waitVars, pc, funnelVars, ctorVars, crashed, histVars>>

\* sem_post(&monitor->m_operation_done);
ServePost ==
    /\ ownerPc = "serve_post"
    /\ m_operation_done' = m_operation_done + 1
    /\ ownerPc' = "serve_wait"
    /\ UNCHANGED <<memVars, waitVars, pc, m_operation_mutex, m_operation, m_operation_pending, myOp,
                   ctorVars, crashed, histVars>>

----------------------------------------------------------------------------
(* The constructor (launch and attach shapes alike) and the teardown.      *)

\* StartLaunchOpThread / StartAttachOpThread: ThreadLauncher::LaunchThread
\* started the operation thread
CtorStartOpThread ==
    /\ pc[MainThread] = "ctor_start"
    /\ m_operation_thread' = "joinable"
    /\ ownerPc' = "bootstrap"
    /\ pc' = [pc EXCEPT ![MainThread] = "ctor_wait"]
    /\ UNCHANGED <<memVars, waitVars, funnelVars, m_monitor_thread, sems_destroyed, args_semaphore,
                   args_error, error, stopOpFrom, monitorStop, crashed, histVars>>

\* LaunchThread failed: if (!error.Success()) return;
CtorStartOpThreadFails ==
    /\ pc[MainThread] = "ctor_start"
    /\ error' = "thread"
    /\ pc' = [pc EXCEPT ![MainThread] = "constructed"]
    /\ UNCHANGED <<memVars, waitVars, ownerPc, funnelVars, m_operation_thread, m_monitor_thread,
                   sems_destroyed, args_semaphore, args_error, stopOpFrom,
                   monitorStop, crashed, histVars>>

\* WAIT_AGAIN: sem_wait(&args->m_semaphore) interrupted
CtorWaitInterrupted ==
    /\ pc[MainThread] = "ctor_wait"
    /\ eintr < MaxEintr
    /\ eintr' = eintr + 1
    /\ UNCHANGED <<memVars, waitVars, pc, ownerPc, funnelVars, ctorVars, crashed, nextId, lockOrder,
                   execOrder, executing, execCount, traceIssued, afterStop>>

\* sem_wait(&args->m_semaphore) returned 0; if (!args->m_error.Success())
\* StopOpThread() is called, else the monitor thread is started next
CtorWait ==
    /\ pc[MainThread] = "ctor_wait"
    /\ args_semaphore > 0
    /\ args_semaphore' = args_semaphore - 1
    /\ IF args_error
       THEN /\ pc' = [pc EXCEPT ![MainThread] = "stopop"]
            /\ stopOpFrom' = "ctor"
       ELSE /\ pc' = [pc EXCEPT ![MainThread] = "ctor_monitor"]
            /\ UNCHANGED stopOpFrom
    /\ UNCHANGED <<memVars, waitVars, ownerPc, funnelVars, m_operation_thread, m_monitor_thread,
                   sems_destroyed, args_error, error, monitorStop, crashed,
                   histVars>>

\* m_monitor_thread = Host::StartMonitoringChildProcess(MonitorCallback, ...)
CtorStartMonitor ==
    /\ pc[MainThread] = "ctor_monitor"
    /\ m_monitor_thread' = "joinable"
    /\ pc' = [pc EXCEPT ![MainThread] = "constructed", ![MonitorThread] = "idle"]
    /\ UNCHANGED <<memVars, waitVars, ownerPc, funnelVars, m_operation_thread, sems_destroyed,
                   args_semaphore, args_error, error, stopOpFrom, monitorStop,
                   crashed, histVars>>

\* if (!m_monitor_thread.IsJoinable()) "Process launch failed."
CtorStartMonitorFails ==
    /\ pc[MainThread] = "ctor_monitor"
    /\ error' = "monitor"
    /\ pc' = [pc EXCEPT ![MainThread] = "constructed"]
    /\ UNCHANGED <<memVars, waitVars, ownerPc, funnelVars, m_operation_thread, m_monitor_thread,
                   sems_destroyed, args_semaphore, args_error, stopOpFrom,
                   monitorStop, crashed, histVars>>

\* StopMonitor(): StopMonitoringChildProcess sends SIGUSR1 to a joinable
\* monitor thread and joins it; otherwise StopOpThread is next
StopMonitor ==
    /\ pc[MainThread] = "constructed"
    /\ IF m_monitor_thread = "joinable"
       THEN /\ monitorStop' = TRUE
            /\ pc' = [pc EXCEPT ![MainThread] = "stopmon_join"]
            /\ UNCHANGED stopOpFrom
       ELSE /\ pc' = [pc EXCEPT ![MainThread] = "stopop"]
            /\ stopOpFrom' = "StopMonitor"
            /\ UNCHANGED monitorStop
    /\ UNCHANGED <<memVars, waitVars, ownerPc, funnelVars, m_operation_thread, m_monitor_thread,
                   sems_destroyed, args_semaphore, args_error, error, crashed,
                   histVars>>

\* the monitor thread, back in its wait, sees the signal and ends
MonitorExit ==
    /\ pc[MonitorThread] = "idle"
    /\ monitorStop
    /\ pc' = [pc EXCEPT ![MonitorThread] = "exited"]
    /\ UNCHANGED <<memVars, waitVars, ownerPc, funnelVars, ctorVars, crashed, histVars>>

\* what follows StopOpThread(): in the constructor, error = args->m_error and
\* return; in StopMonitor, the sem_destroy calls
AfterStopOp == IF stopOpFrom = "ctor" THEN "constructed" ELSE "destroy"

ErrorAfterStopOp == IF stopOpFrom = "ctor" THEN "bootstrap" ELSE error

\* StopOpThread(): if (!m_operation_thread.IsJoinable()) return;
StopOpThreadNotJoinable ==
    /\ pc[MainThread] = "stopop"
    /\ m_operation_thread # "joinable"
    /\ error' = ErrorAfterStopOp
    /\ pc' = [pc EXCEPT ![MainThread] = AfterStopOp]
    /\ UNCHANGED <<memVars, waitVars, ownerPc, funnelVars, m_operation_thread, m_monitor_thread,
                   sems_destroyed, args_semaphore, args_error, stopOpFrom,
                   monitorStop, crashed, histVars>>

\* StopOpThread(): DoOperation(EXIT_OPERATION);
StopOpThread ==
    /\ pc[MainThread] = "stopop"
    /\ m_operation_thread = "joinable"
    /\ myOp' = [myOp EXCEPT ![MainThread] = EXIT_OPERATION]
    /\ pc' = [pc EXCEPT ![MainThread] = "do_lock"]
    /\ UNCHANGED <<memVars, waitVars, ownerPc, m_operation_mutex, m_operation, m_operation_pending,
                   m_operation_done, ctorVars, crashed, histVars>>

\* HostThread::Join(nullptr) at its two call sites: it returns once the
\* joined thread's function has returned, and resets the handle.
\* StopMonitoringChildProcess joins the monitor thread and StopOpThread comes
\* next; StopOpThread joins the operation thread and returns.
ThreadJoin ==
    /\ pc[MainThread] \in {"stopmon_join", "stopop_join"}
    /\ IF pc[MainThread] = "stopmon_join"
       THEN /\ pc[MonitorThread] = "exited"
            /\ m_monitor_thread' = "invalid"
            /\ stopOpFrom' = "StopMonitor"
            /\ pc' = [pc EXCEPT ![MainThread] = "stopop"]
            /\ UNCHANGED <<m_operation_thread, error>>
       ELSE /\ ownerPc = "returned"
            /\ m_operation_thread' = "invalid"
            /\ error' = ErrorAfterStopOp
            /\ pc' = [pc EXCEPT ![MainThread] = AfterStopOp]
            /\ UNCHANGED <<m_monitor_thread, stopOpFrom>>
    /\ UNCHANGED <<memVars, waitVars, ownerPc, funnelVars, sems_destroyed, args_semaphore,
                   args_error, monitorStop, crashed, histVars>>

\* sem_destroy(&m_operation_pending); sem_destroy(&m_operation_done); close
StopMonitorDestroy ==
    /\ pc[MainThread] = "destroy"
    /\ sems_destroyed' = TRUE
    /\ pc' = [pc EXCEPT ![MainThread] = "torndown"]
    /\ UNCHANGED <<memVars, waitVars, ownerPc, funnelVars, m_operation_thread, m_monitor_thread,
                   args_semaphore, args_error, error, stopOpFrom, monitorStop,
                   crashed, histVars>>

----------------------------------------------------------------------------

Next ==
    \/ \E t \in Clients : Call(t)
    \/ \E t \in Funnelers : DoLock(t)
    \/ \E t \in Funnelers : DoSet(t)
    \/ \E t \in Funnelers : DoPost(t)
    \/ \E t \in Funnelers : DoWait(t)
    \/ \E t \in Funnelers : DoWaitInterrupted(t)
    \/ \E t \in Funnelers : DestroyedSemUse(t)
    \/ \E t \in Funnelers : DoUnlock(t)
    \/ OwnerBootstrapOk
    \/ OwnerBootstrapFails
    \/ ServeWait
    \/ ServeWaitInterrupted
    \/ ServeExecuteBegin
    \/ ServeExecuteEnd
    \/ ServeExecuteNullCrashes
    \/ ServeExecuteNullReturns
    \/ ServePost
    \/ CtorStartOpThread
    \/ CtorStartOpThreadFails
    \/ CtorWaitInterrupted
    \/ CtorWait
    \/ CtorStartMonitor
    \/ CtorStartMonitorFails
    \/ StopMonitor
    \/ MonitorExit
    \/ StopOpThreadNotJoinable
    \/ StopOpThread
    \/ ThreadJoin
    \/ StopMonitorDestroy

Spec == Init /\ [][Next]_vars

\* the fairness the scheduler gives: a thread that can take its next step
\* takes it.  An interrupted sem_wait is an event of the environment and is
\* given no fairness.
OwnerStep ==
    \/ OwnerBootstrapOk
    \/ OwnerBootstrapFails
    \/ ServeWait
    \/ ServeExecuteBegin
    \/ ServeExecuteEnd
    \/ ServePost

FunnelStep(t) ==
    \/ DoLock(t)
    \/ DoSet(t)
    \/ DoPost(t)
    \/ DoWait(t)
    \/ DoUnlock(t)

FairSpec ==
    /\ Spec
    /\ WF_vars(OwnerStep)
    /\ \A t \in Funnelers : WF_vars(FunnelStep(t))

----------------------------------------------------------------------------
(* The monitor thread: MonitorCallback and the classification of stops.    *)

\* the largest thread id of the inferior
MaxTids == 2
Tids == 1..MaxTids
\* process->GetID(): the thread-group leader, the lowest thread id of the group
ProcessID == CHOOSE p \in Tids : \A t \in Tids : p <= t

\* <signal.h>, <sys/ptrace.h> and <bits/siginfo.h> of Linux
SIGILL == 4
SIGTRAP == 5
SIGBUS == 7
SIGFPE == 8
SIGUSR1 == 10
SIGSEGV == 11
SIGSTOP == 19
PTRACE_EVENT_FORK == 1
PTRACE_EVENT_CLONE == 3
PTRACE_EVENT_EXEC == 4
PTRACE_EVENT_EXIT == 6
TRAP_BRKPT == 1
TRAP_TRACE == 2
TRAP_HWBKPT == 4
SI_USER == 0
SI_KERNEL == 128
SI_TKILL == -6
eResumeSignalNone == 0
\* getpid(): the debugger's own process id
getpid == 50
\* the si_pid of a signal: the debugger or another process
SenderPids == {getpid, getpid + 1}

\* SIGTRAP | (event << 8)
TrapEvent(event) == BitOr(SIGTRAP, event * 256, 12)
\* SIGTRAP | 0x80
SyscallStop == BitOr(SIGTRAP, SI_KERNEL, 12)

\* unsigned long values are held as words (see ZeroWord)
AllOnes == [i \in 1..word_size |-> 255]
WordOf(n) == [i \in 1..word_size |-> IF i = 1 THEN n ELSE 0]
\* data >> 8
ShiftRight8(data) ==
    [i \in 1..word_size |-> IF i < word_size THEN data[i + 1] ELSE 0]

\* ProcessMessage: the default-constructed message and the factories
InvalidMessage == [kind |-> "Invalid"]
Exit(pid, status) == [kind |-> "Exit", tid |-> pid, status |-> status]
Limbo(pid, status) == [kind |-> "Limbo", tid |-> pid, status |-> status]
Trace(pid) == [kind |-> "Trace", tid |-> pid]
Break(pid) == [kind |-> "Break", tid |-> pid]
Watch(pid, wp_addr) == [kind |-> "Watch", tid |-> pid, addr |-> wp_addr]
Exec(pid) == [kind |-> "Exec", tid |-> pid]
NewThread(pid, child_tid) ==
    [kind |-> "NewThread", tid |-> pid, child |-> child_tid]
Signal(pid, signum) == [kind |-> "Signal", tid |-> pid, signo |-> signum]
SignalDelivered(pid, signum) ==
    [kind |-> "SignalDelivered", tid |-> pid, signo |-> signum]
Crash(pid, reason, signum, fault_addr) ==
    [kind |-> "Crash", tid |-> pid, reason |-> reason, signo |-> signum,
     addr |-> fault_addr]

\* GetCrashReason(info): decided by the signal and its code
GetCrashReason(w) == <<w.si_signo, w.si_code>>

\* the calls MonitorCallback makes into the funnel
GetSignalInfo(tid) == [op |-> "GetSignalInfo", tid |-> tid, signo |-> 0]
GetEventMessage(tid) == [op |-> "GetEventMessage", tid |-> tid, signo |-> 0]
Resume(tid, signum) == [op |-> "Resume", tid |-> tid, signo |-> signum]

\* the mutant: the exit event's message taken for the exit code as it is
LimboStatusNoShift(data) == data

\* (data >> 8), the argument of ProcessMessage::Limbo
LimboStatus(data) == ShiftRight8(data)

\* the mutant: the system-call stop is resumed with the trap signal
SyscallStopResumeWithTrap(pid) == <<Resume(pid, SIGTRAP)>>

\* monitor->Resume(pid, eResumeSignalNone) of the system-call stop
SyscallStopResume(pid) == <<Resume(pid, eResumeSignalNone)>>

\* ProcessMonitor::MonitorSIGTRAP(monitor, info, pid): the message returned,
\* the funnel calls made, and whether assert(false) was reached
MonitorSIGTRAP(w) ==
    LET pid == w.pid
        code == w.si_code
    IN  IF code = TrapEvent(PTRACE_EVENT_CLONE)
        THEN LET tid == IF w.evOk THEN w.evData ELSE AllOnes
             IN  [message |-> NewThread(pid, tid),
                  ops |-> <<GetEventMessage(pid)>>, asserted |-> FALSE]
        ELSE IF code = TrapEvent(PTRACE_EVENT_EXEC)
        THEN [message |-> Exec(pid), ops |-> <<>>, asserted |-> FALSE]
        ELSE IF code = TrapEvent(PTRACE_EVENT_EXIT)
        THEN LET data == IF w.evOk THEN w.evData ELSE AllOnes
             IN  [message |-> Limbo(pid, LimboStatus(data)),
                  ops |-> <<GetEventMessage(pid)>>, asserted |-> FALSE]
        ELSE IF code = 0 \/ code = TRAP_TRACE
        THEN [message |-> Trace(pid), ops |-> <<>>, asserted |-> FALSE]
        ELSE IF code = SI_KERNEL \/ code = TRAP_BRKPT
        THEN [message |-> Break(pid), ops |-> <<>>, asserted |-> FALSE]
        ELSE IF code = TRAP_HWBKPT
        THEN [message |-> Watch(pid, w.si_addr), ops |-> <<>>,
              asserted |-> FALSE]
        ELSE IF code = SIGTRAP \/ code = SyscallStop
        THEN [message |-> InvalidMessage, ops |-> SyscallStopResume(pid),
              asserted |-> FALSE]
        ELSE [message |-> InvalidMessage, ops |-> <<>>, asserted |-> TRUE]

\* the mutant: the signal counts as delivered by the debugger when it stops
\* the thread-group leader
SenderIsLeader(w) == w.pid = ProcessID

\* info->si_pid == getpid()
SenderIsDebugger(w) == w.si_pid = getpid

\* the mutant: the crash signals are a crash whoever sent them
MonitorSignalCrashFirst(w) ==
    IF w.si_signo \in {SIGSEGV, SIGILL, SIGFPE, SIGBUS}
    THEN Crash(w.pid, GetCrashReason(w), w.si_signo, w.si_addr)
    ELSE IF w.si_code = SI_TKILL \/ w.si_code = SI_USER
    THEN IF SenderIsDebugger(w) THEN SignalDelivered(w.pid, w.si_signo)
         ELSE Signal(w.pid, w.si_signo)
    ELSE Signal(w.pid, w.si_signo)

\* ProcessMonitor::MonitorSignal(monitor, info, pid): the message returned
MonitorSignal(w) ==
    LET signo == w.si_signo
    IN  IF w.si_code = SI_TKILL \/ w.si_code = SI_USER
        THEN IF SenderIsDebugger(w) THEN SignalDelivered(w.pid, signo)
             ELSE Signal(w.pid, signo)
        ELSE IF signo \in {SIGSEGV, SIGILL, SIGFPE, SIGBUS}
        THEN Crash(w.pid, GetCrashReason(w), signo, w.si_addr)
        ELSE Signal(w.pid, signo)

\* the mutant: any exit ends the monitoring
ExitedStopsAlways(pid) == TRUE

\* return pid == process->GetID(), after an exit
ExitedStops(pid) == pid = ProcessID

\* the mutant: a failing GetSignalInfo ends the monitoring for any thread
SiginfoFailureStopsAlways(pid) == TRUE

\* stop_monitoring = pid == monitor->m_process->GetID(), when GetSignalInfo
\* failed and not with EINVAL
SiginfoFailureStops(pid) == pid = ProcessID

\* the mutant: the group-stop is left with a plain resume
GroupStopResumePlain(pid) == <<Resume(pid, eResumeSignalNone)>>

\* monitor->Resume(pid, SIGSTOP) of the group-stop
GroupStopResume(pid) == <<Resume(pid, SIGSTOP)>>

\* ProcessMonitor::MonitorCallback(callback_baton, pid, exited, signal,
\* status) in a build with (nd) or without NDEBUG: the messages passed to
\* process->SendMessage, the funnel calls made, the value returned, and
\* whether a failed assert ended the process instead
MonitorCallback(w, nd) ==
    LET pid == w.pid
    IN  IF w.exited
        THEN [msgs |-> <<Exit(pid, w.status)>>, ops |-> <<>>,
              stop |-> ExitedStops(pid), aborted |-> FALSE]
        ELSE IF w.avail # "ok"
        THEN IF w.avail = "EINVAL"
             THEN [msgs |-> <<>>,
                   ops |-> <<GetSignalInfo(pid)>> \o GroupStopResume(pid),
                   stop |-> FALSE, aborted |-> ~w.resumeOk /\ ~nd]
             ELSE LET stop_monitoring == SiginfoFailureStops(pid)
                  IN  [msgs |-> IF stop_monitoring
                                THEN <<Exit(pid, w.status)>> ELSE <<>>,
                       ops |-> <<GetSignalInfo(pid)>>,
                       stop |-> stop_monitoring, aborted |-> FALSE]
        ELSE IF w.si_signo = SIGTRAP
        THEN LET m == MonitorSIGTRAP(w)
             IN  IF m.asserted /\ ~nd
                 THEN [msgs |-> <<>>, ops |-> <<GetSignalInfo(pid)>> \o m.ops,
                       stop |-> FALSE, aborted |-> TRUE]
                 ELSE [msgs |-> <<m.message>>,
                       ops |-> <<GetSignalInfo(pid)>> \o m.ops,
                       stop |-> FALSE, aborted |-> FALSE]
        ELSE [msgs |-> <<MonitorSignal(w)>>, ops |-> <<GetSignalInfo(pid)>>,
              stop |-> FALSE, aborted |-> FALSE]

\* the exit statuses and the fault addresses the wake-ups carry
Statuses == {0, 1}
FaultAddrs == {0, MemSize}
\* the event message of an exit event: the wait status of the exit, the exit
\* code in its second byte, the signal in its first
ExitEventMessages ==
    {[WordOf(s) EXCEPT ![2] = c] : s \in {0, SIGSEGV}, c \in {0, 3}}

\* waitpid reported an exit of pid
ExitedWakeUps ==
    {[NoWakeUp EXCEPT !.pid = p, !.exited = TRUE, !.status = s] :
        p \in Tids, s \in Statuses}

\* a stop for which PTRACE_GETSIGINFO fails: the group-stop (EINVAL), after
\* which the resume with SIGSTOP succeeds or not, or a thread that is gone
UnavailableWakeUps ==
    {[NoWakeUp EXCEPT !.pid = p, !.avail = "EINVAL", !.resumeOk = r] :
        p \in Tids, r \in BOOLEAN}
    \cup {[NoWakeUp EXCEPT !.pid = p, !.avail = "ESRCH", !.status = s] :
            p \in Tids, s \in Statuses}

\* the si_code values of a SIGTRAP that carry nothing else
PlainTrapCodes ==
    {TrapEvent(PTRACE_EVENT_EXEC), 0, TRAP_TRACE, SI_KERNEL, TRAP_BRKPT,
     TrapEvent(PTRACE_EVENT_FORK), SI_TKILL}

TrapWakeUps ==
    LET trap(p, c) == [NoWakeUp EXCEPT !.pid = p, !.si_signo = SIGTRAP,
                                       !.si_code = c]
    IN  {trap(p, c) : p \in Tids, c \in PlainTrapCodes}
        \cup {[trap(p, TrapEvent(PTRACE_EVENT_CLONE))
                  EXCEPT !.evData = WordOf(t)] :
                p \in Tids, t \in Tids}
        \cup {[trap(p, TrapEvent(PTRACE_EVENT_EXIT)) EXCEPT !.evData = d] :
                p \in Tids, d \in ExitEventMessages}
        \cup {[trap(p, c) EXCEPT !.evOk = FALSE] :
                p \in Tids, c \in {TrapEvent(PTRACE_EVENT_CLONE),
                                   TrapEvent(PTRACE_EVENT_EXIT)}}
        \cup {[trap(p, TRAP_HWBKPT) EXCEPT !.si_addr = a] :
                p \in Tids, a \in FaultAddrs}
        \cup {[trap(p, c) EXCEPT !.resumeOk = r] :
                p \in Tids, c \in {SIGTRAP, SyscallStop}, r \in BOOLEAN}

SignalWakeUps ==
    {[NoWakeUp EXCEPT !.pid = p, !.si_signo = g, !.si_code = c,
                      !.si_pid = s, !.si_addr = MemSize] :
        p \in Tids,
        g \in {SIGSTOP, SIGUSR1, SIGSEGV, SIGILL, SIGFPE, SIGBUS},
        c \in {SI_USER, SI_TKILL, SI_KERNEL},
        s \in SenderPids}

StoppedWakeUps == UnavailableWakeUps \cup TrapWakeUps \cup SignalWakeUps

\* the funnel's part of a state after a launch that succeeded: the operation
\* thread in its loop, the monitor thread in its wait
Monitoring ==
    /\ pc = [t \in Funnelers |->
                IF t = MainThread THEN "constructed" ELSE "idle"]
    /\ ownerPc = "serve_wait"
    /\ m_operation_thread = "joinable"
    /\ m_monitor_thread = "joinable"
    /\ m_operation_mutex = "free"
    /\ m_operation = EXIT_OPERATION
    /\ m_operation_pending = 0
    /\ m_operation_done = 0
    /\ sems_destroyed = FALSE
    /\ args_semaphore = 0
    /\ args_error = FALSE
    /\ error = "none"
    /\ myOp = [t \in Funnelers |-> NoOp]
    /\ stopOpFrom = "none"
    /\ monitorStop = FALSE
    /\ crashed = FALSE
    /\ nextId = 0
    /\ eintr = 0
    /\ lockOrder = <<>>
    /\ execOrder = <<>>
    /\ executing = {}
    /\ execCount = [i \in 1..MaxOps |-> 0]
    /\ traceIssued = BootstrapRequests("launch")
    /\ afterStop = [t \in Clients |-> FALSE]

\* one turn of the monitor thread's loop: the callback is called for the
\* wake-up w, and the thread ends when it returns true.  Each funnel call of
\* the callback is a whole DoOperation.
Callback(w) ==
    /\ LET r == MonitorCallback(w, ndebug)
       IN  /\ cb' = [valid |-> TRUE, in |-> w, msgs |-> r.msgs, ops |-> r.ops,
                     stop |-> r.stop, aborted |-> r.aborted]
           /\ IF r.aborted
              THEN ProcessDies
              ELSE /\ pc' = [pc EXCEPT ![MonitorThread] =
                                IF r.stop THEN "exited" ELSE "idle"]
                   /\ UNCHANGED <<ownerPc, crashed>>
    /\ UNCHANGED <<ndebug, boot, rg, jit, memVars, funnelVars, ctorVars, histVars>>

\* the wait of the monitor thread returns with a thread that exited
WaitExited ==
    /\ pc[MonitorThread] = "idle"
    /\ \E w \in ExitedWakeUps : Callback(w)
    /\ UNCHANGED cl

\* the wait of the monitor thread returns with a thread that stopped
WaitStopped ==
    /\ pc[MonitorThread] = "idle"
    /\ \E w \in StoppedWakeUps : Callback(w)
    /\ UNCHANGED cl

WaitInit ==
    /\ Monitoring
    /\ MemQuiet
    /\ ndebug \in BOOLEAN
    /\ cb = NoCallback
    /\ cl = NoClone
    /\ boot = NoBoot
    /\ rg = NoRegs
    /\ jit = NoJit

WaitNext ==
    \/ WaitExited
    \/ WaitStopped

WaitSpec == WaitInit /\ [][WaitNext]_vars

----------------------------------------------------------------------------
(* New threads: the clone trap of the parent, the initial SIGSTOP of the   *)
(* child, WaitForInitialTIDStop and StopThread.                            *)

\* StopThread is called at most this many times
MaxStops == 1

\* the threads the inferior can create
Children == Tids \ {ProcessID}

\* the stop of the parent in PTRACE_EVENT_CLONE; the event message is the tid
CloneTrap(T) ==
    [NoWakeUp EXCEPT !.pid = ProcessID, !.si_signo = SIGTRAP,
                     !.si_code = TrapEvent(PTRACE_EVENT_CLONE),
                     !.evData = WordOf(T)]

\* the first stop of a new thread: SIGSTOP with si_code SI_USER
InitialStop(T) ==
    [NoWakeUp EXCEPT !.pid = T, !.si_signo = SIGSTOP, !.si_code = SI_USER]

\* the stop tgkill(m_pid, tid, SIGSTOP) of StopThread brings about
TkillStop(tid) ==
    [NoWakeUp EXCEPT !.pid = tid, !.si_signo = SIGSTOP, !.si_code = SI_TKILL,
                     !.si_pid = getpid]

\* the thread id in an event message
TidOf(data) ==
    IF \E t \in Tids : WordOf(t) = data
    THEN CHOOSE t \in Tids : WordOf(t) = data
    ELSE 0

\* waitpid returned the stop w to `who`: it is not pending any more, it is
\* the next in the order of the stops the kernel delivered, and `who` holds it
\* until it has dealt with it
Taken(c, w, who) ==
    [c EXCEPT !.pending = @ \ {w},
              !.order = Append(@, w),
              !.held[who] = Len(c.order) + 1]

\* `who` looks at the stop w it holds
Observed(c, w, who) ==
    LET isTrap == /\ w.si_signo = SIGTRAP
                  /\ w.si_code = TrapEvent(PTRACE_EVENT_CLONE)
        T == TidOf(w.evData)
    IN  [c EXCEPT !.stopSeen = IF w.si_signo = SIGSTOP /\ w.si_code = SI_USER
                               THEN @ \cup {w.pid} ELSE @,
                  !.trapByMonitor = IF isTrap /\ who = "monitor"
                                    THEN @ \cup {T} ELSE @,
                  !.trapByStopper = IF isTrap /\ who = "stopper"
                                    THEN @ \cup {T} ELSE @]

\* waitpid(tid) returned the stop w, and it was looked at
Reaped(c, w, who) ==
    Observed([c EXCEPT !.pending = @ \ {w}], w, who)

\* m_process->AddThreadForInitialStopIfNeeded(tid)
AddThreadForInitialStopIfNeeded(c, tid) ==
    [c EXCEPT !.initialStops = @ \cup {tid}]

\* the Process Object is done with NewThread for the child T
NewThreadHandled(c, T, who) ==
    [c EXCEPT !.threads = @ \cup {T}, !.waiting[who] = 0]

\* m_process->SendMessage(message), called by `who`: the message is sent;
\* a SIGSTOP of a thread not seen before is its initial stop; for NewThread
\* the receiver calls WaitForInitialTIDStop(child) when the child's initial
\* stop was not seen yet, and the sender waits in that call
SendMessage(c, message, who) ==
    LET c1 == [c EXCEPT !.sent = Append(@, message),
                        !.sentFor = Append(@, c.held[who])]
    IN  IF /\ message.kind \in {"Signal", "SignalDelivered"}
           /\ message.signo = SIGSTOP
           /\ message.tid \notin c.initialStops
        THEN AddThreadForInitialStopIfNeeded(c1, message.tid)
        ELSE IF message.kind = "NewThread"
        THEN LET T == TidOf(message.child)
             IN  IF T \in c.initialStops
                 THEN NewThreadHandled(c1, T, who)
                 ELSE [c1 EXCEPT !.waiting[who] = T]
        ELSE c1

\* the mutant: StopThread keeps the NewThread message to itself
StopThreadForwardsNoNewThread(kind) ==
    kind \in {"Break", "Trace", "Watch", "Crash"}

\* the last group of cases in the switch of StopThread
StopThreadForwards(kind) ==
    kind \in {"Break", "Trace", "Watch", "Crash", "NewThread"}

\* one turn of the loop of StopThread(tid) after waitpid returned w: the
\* state after it, the funnel calls made, whether StopThread returns ("true",
\* "false") or waits again, whether an assert failed, and whether
\* llvm_unreachable was reached, which ends a build with asserts and is
\* undefined in a build without
StopThreadTurn(c, w, tid, nd) ==
    LET trap == MonitorSIGTRAP(w)
        message == IF w.si_signo = SIGTRAP THEN trap.message
                   ELSE MonitorSignal(w)
        classifyOps == <<GetSignalInfo(w.pid)>>
                          \o (IF w.si_signo = SIGTRAP THEN trap.ops ELSE <<>>)
        kind == message.kind
        thread == w.pid \in c.threads
        target == w.pid = tid
        send == SendMessage(c, message, "stopper")
        turn(c2, ret, ops) ==
            [c |-> c2, ret |-> ret, ops |-> ops, asserted |-> FALSE,
             unreachable |-> FALSE]
        abort(ops) ==
            [c |-> c, ret |-> "again", ops |-> ops, asserted |-> TRUE,
             unreachable |-> FALSE]
        sendAndResume ==
            IF target
            THEN turn([send EXCEPT !.resumed = @ \cup {w.pid}], "again",
                      classifyOps \o <<Resume(w.pid, eResumeSignalNone)>>)
            ELSE turn(send, "again", classifyOps)
    IN  IF w.exited
        THEN turn(SendMessage(c, Exit(w.pid, w.status), "stopper"),
                  IF target THEN "true" ELSE "again", <<>>)
        ELSE IF w.avail = "EINVAL"
        THEN IF ~w.resumeOk /\ ~nd
             THEN abort(<<GetSignalInfo(w.pid), Resume(w.pid, SIGSTOP)>>)
             ELSE turn(c, "again",
                       <<GetSignalInfo(w.pid), Resume(w.pid, SIGSTOP)>>)
        ELSE IF w.avail # "ok"
        THEN turn(c, "false", <<GetSignalInfo(w.pid)>>)
        ELSE IF w.si_signo = SIGTRAP /\ trap.asserted /\ ~nd
        THEN abort(classifyOps)
        ELSE IF ~thread /\ kind # "Signal" /\ ~nd
        THEN abort(classifyOps)
        ELSE IF ~thread
        THEN turn(send, "again", classifyOps)
        ELSE IF kind = "Exec"
        THEN [c |-> c, ret |-> "again", ops |-> classifyOps,
              asserted |-> ~nd, unreachable |-> TRUE]
        ELSE IF kind \in {"Limbo", "Exit"}
        THEN turn(send, IF target THEN "true" ELSE "again", classifyOps)
        ELSE IF kind = "Signal"
        THEN IF w.si_signo = SIGSTOP
             THEN turn(AddThreadForInitialStopIfNeeded(c, tid), "again",
                       classifyOps)
             ELSE sendAndResume
        ELSE IF /\ kind = "SignalDelivered"
                /\ target
                /\ w.si_signo = SIGSTOP
                /\ w.si_code = SI_TKILL
        THEN turn(c, "true", classifyOps)
        ELSE IF kind = "SignalDelivered" \/ StopThreadForwards(kind)
        THEN sendAndResume
        ELSE turn(c, "again", classifyOps)

\* what is kept of the last turn of StopThread(tid): the stop it was for,
\* the messages it sent, its funnel calls and how it ended
TurnOf(c, r, w, tid) ==
    [valid |-> TRUE, in |-> w, tid |-> tid,
     msgs |-> SubSeq(r.c.sent, Len(c.sent) + 1, Len(r.c.sent)),
     ops |-> r.ops, ret |-> r.ret, asserted |-> r.asserted,
     unreachable |-> r.unreachable, thread |-> w.pid \in c.threads]

\* the thread tid is in a stop that was reported and not dealt with yet: it
\* does not run, and reports no other stop
Stopped(c, tid) ==
    \/ \E w \in c.pending : w.pid = tid
    \/ \E who \in {"monitor", "stopper"} :
          c.held[who] # 0 /\ c.order[c.held[who]].pid = tid

\* the state in which clones are followed: the leader is known and its
\* initial stop was seen at the launch
Cloning ==
    [NoClone EXCEPT !.initialStops = {ProcessID}, !.threads = {ProcessID}]

\* the kernel reports the clone of a child by the stop of the parent
CloneTrapArrives ==
    /\ ~crashed
    /\ ~Stopped(cl, ProcessID)
    /\ \E T \in Children \ cl.trapped :
          cl' = [cl EXCEPT !.trapped = @ \cup {T},
                           !.pending = @ \cup {CloneTrap(T)}]
    /\ UNCHANGED <<ndebug, cb, boot, rg, jit, memVars, funnelVars, ctorVars, histVars,
                   pc, ownerPc, crashed>>

\* the kernel reports the first stop of a child
InitialStopArrives ==
    /\ ~crashed
    /\ \E T \in Children \ cl.stopped :
          cl' = [cl EXCEPT !.stopped = @ \cup {T},
                           !.pending = @ \cup {InitialStop(T)}]
    /\ UNCHANGED <<ndebug, cb, boot, rg, jit, memVars, funnelVars, ctorVars, histVars,
                   pc, ownerPc, crashed>>

\* the wait of the monitor thread returns one of the pending stops
MonitorWaits ==
    /\ pc[MonitorThread] = "idle"
    /\ cl.waiting.monitor = 0
    /\ cl.held.monitor = 0
    /\ \E w \in cl.pending : cl' = Taken(cl, w, "monitor")
    /\ UNCHANGED <<ndebug, cb, boot, rg, jit, memVars, funnelVars, ctorVars, histVars,
                   pc, ownerPc, crashed>>

\* MonitorCallback is called for the stop the monitor thread holds, and sends
\* its message
MonitorDelivers ==
    /\ pc[MonitorThread] = "idle"
    /\ cl.held.monitor # 0
    /\ LET w == cl.order[cl.held.monitor]
           r == MonitorCallback(w, ndebug)
           c == Observed(cl, w, "monitor")
           c2 == IF r.msgs = <<>> THEN c
                 ELSE SendMessage(c, r.msgs[1], "monitor")
       IN  /\ Callback(w)
           /\ cl' = [c2 EXCEPT !.held.monitor = 0]

\* ProcessMonitor::WaitForInitialTIDStop(tid), called for the child of a
\* NewThread message: waitpid(tid) returns a stop of that thread, which is
\* taken for its initial stop
WaitForInitialTIDStop ==
    /\ ~crashed
    /\ \E who \in {"monitor", "stopper"} :
          LET tid == cl.waiting[who]
          IN  /\ tid # 0
              /\ \E w \in cl.pending :
                    /\ w.pid = tid
                    /\ IF ~ndebug /\ ~(w.si_code = SI_USER /\ w.si_signo = SIGSTOP)
                       THEN /\ ProcessDies
                            /\ cl' = Reaped(cl, w, who)
                       ELSE /\ cl' = NewThreadHandled(
                                        AddThreadForInitialStopIfNeeded(
                                            Reaped(cl, w, who), tid),
                                        tid, who)
                            /\ UNCHANGED <<pc, ownerPc, crashed>>
    /\ UNCHANGED <<ndebug, cb, boot, rg, jit, memVars, funnelVars, ctorVars, histVars>>

\* the mutant: the return of tgkill is not looked at
StopThreadCallWaitsAnyway ==
    /\ ~crashed
    /\ cl.stopTid = 0
    /\ cl.waiting.stopper = 0
    /\ cl.stops < MaxStops
    /\ \E tid \in cl.threads, ret \in {0, -1} :
          cl' = [cl EXCEPT !.stops = @ + 1, !.stopTid = tid,
                           !.tkill = IF ret < 0 THEN @ ELSE tid,
                           !.sendFailed = (ret < 0)]
    /\ UNCHANGED <<ndebug, cb, boot, rg, jit, memVars, funnelVars, ctorVars, histVars,
                   pc, ownerPc, crashed>>

\* StopThread(tid) is called for a thread of the thread list: tgkill sends
\* SIGSTOP, or fails and StopThread returns false
StopThreadCall ==
    /\ ~crashed
    /\ cl.stopTid = 0
    /\ cl.waiting.stopper = 0
    /\ cl.stops < MaxStops
    /\ \E tid \in cl.threads, ret \in {0, -1} :
          cl' = IF ret < 0
                THEN [cl EXCEPT !.stops = @ + 1, !.sendFailed = TRUE]
                ELSE [cl EXCEPT !.stops = @ + 1, !.stopTid = tid,
                                !.tkill = tid, !.sendFailed = FALSE]
    /\ UNCHANGED <<ndebug, cb, boot, rg, jit, memVars, funnelVars, ctorVars, histVars,
                   pc, ownerPc, crashed>>

\* the thread StopThread sent SIGSTOP to runs, and stops with it
TkillStopArrives ==
    /\ ~crashed
    /\ cl.tkill # 0
    /\ ~Stopped(cl, cl.tkill)
    /\ cl' = [cl EXCEPT !.tkill = 0,
                        !.pending = @ \cup {TkillStop(cl.tkill)}]
    /\ UNCHANGED <<ndebug, cb, boot, rg, jit, memVars, funnelVars, ctorVars, histVars,
                   pc, ownerPc, crashed>>

\* waitpid(-getpgid(m_pid)) in StopThread returns one of the pending stops
StopThreadWaits ==
    /\ ~crashed
    /\ cl.stopTid # 0
    /\ cl.waiting.stopper = 0
    /\ cl.held.stopper = 0
    /\ \E w \in cl.pending : cl' = Taken(cl, w, "stopper")
    /\ UNCHANGED <<ndebug, cb, boot, rg, jit, memVars, funnelVars, ctorVars, histVars,
                   pc, ownerPc, crashed>>

\* StopThread deals with the stop it holds: the rest of the turn of its loop
StopThreadDelivers ==
    /\ ~crashed
    /\ cl.held.stopper # 0
    /\ LET w == cl.order[cl.held.stopper]
           c0 == Observed(cl, w, "stopper")
           r == StopThreadTurn(c0, w, cl.stopTid, ndebug)
           c == [r.c EXCEPT !.held.stopper = 0,
                            !.turn = TurnOf(c0, r, w, cl.stopTid)]
       IN  \E dies \in BOOLEAN :
              IF r.asserted \/ (r.unreachable /\ dies)
              THEN /\ ProcessDies
                   /\ cl' = c
              ELSE /\ cl' = IF r.ret # "again" THEN [c EXCEPT !.stopTid = 0]
                            ELSE c
                   /\ UNCHANGED <<pc, ownerPc, crashed>>
    /\ UNCHANGED <<ndebug, cb, boot, rg, jit, memVars, funnelVars, ctorVars, histVars>>

\* StopThread(tid) waits, after its tgkill, in a process of one or more
\* threads whose initial stops were seen
Stopping ==
    {[Cloning EXCEPT !.threads = T, !.initialStops = T, !.stopTid = tid,
                     !.stops = 1] :
        T \in {T \in SUBSET Tids : ProcessID \in T}, tid \in Tids}

\* a turn of the loop of StopThread for the stop w that waitpid returned
StopTurn(w) ==
    /\ ~crashed
    /\ cl.stopTid # 0
    /\ ~cl.turn.valid
    /\ LET c0 == Observed(Taken(cl, w, "stopper"), w, "stopper")
           r == StopThreadTurn(c0, w, cl.stopTid, ndebug)
           c == [r.c EXCEPT !.held.stopper = 0,
                            !.turn = TurnOf(c0, r, w, cl.stopTid)]
       IN  \E dies \in BOOLEAN :
              IF r.asserted \/ (r.unreachable /\ dies)
              THEN /\ ProcessDies
                   /\ cl' = c
              ELSE /\ cl' = IF r.ret # "again" THEN [c EXCEPT !.stopTid = 0]
                            ELSE c
                   /\ UNCHANGED <<pc, ownerPc, crashed>>
    /\ UNCHANGED <<ndebug, cb, boot, rg, jit, memVars, funnelVars, ctorVars, histVars>>

\* waitpid in StopThread returns a thread that exited
StopThreadExited ==
    /\ cl.stopTid # 0
    /\ \E w \in ExitedWakeUps : StopTurn(w)

\* waitpid in StopThread returns a thread that stopped
StopThreadStopped ==
    /\ cl.stopTid # 0
    /\ \E w \in StoppedWakeUps : StopTurn(w)

StopInit ==
    /\ Monitoring
    /\ MemQuiet
    /\ ndebug \in BOOLEAN
    /\ cb = NoCallback
    /\ cl \in {c \in Stopping : c.stopTid \in c.threads}
    /\ boot = NoBoot
    /\ rg = NoRegs
    /\ jit = NoJit

StopNext ==
    \/ StopThreadExited
    \/ StopThreadStopped

StopSpec == StopInit /\ [][StopNext]_vars

CloneInit ==
    /\ Monitoring
    /\ MemQuiet
    /\ ndebug \in BOOLEAN
    /\ cb = NoCallback
    /\ cl = Cloning
    /\ boot = NoBoot
    /\ rg = NoRegs
    /\ jit = NoJit

CloneNext ==
    \/ CloneTrapArrives
    \/ InitialStopArrives
    \/ MonitorWaits
    \/ MonitorDelivers
    \/ WaitForInitialTIDStop
    \/ StopThreadCall
    \/ TkillStopArrives
    \/ StopThreadWaits
    \/ StopThreadDelivers

CloneSpec == CloneInit /\ [][CloneNext]_vars

----------------------------------------------------------------------------
(* The funnel's properties.                                                *)

IsPrefix(s, t) ==
    /\ Len(s) <= Len(t)
    /\ \A i \in 1..Len(s) : s[i] = t[i]

OwnerServing ==
    ownerPc \in {"serve_wait", "serve_exec", "serve_executing", "serve_post"}

\* C1: the operation thread executes the operations one at a time, in the
\* order in which their callers acquired m_operation_mutex: the executions so
\* far are a prefix of the acquisitions so far, and at most one Execute is
\* running at any time.
C1_FunnelSerialization ==
    /\ IsPrefix(execOrder, lockOrder)
    /\ Cardinality(executing) <= 1

\* two threads contended, and the operation built second was served first
C1_Witness ==
    /\ Len(execOrder) >= 2
    /\ execOrder[1] > execOrder[2]

\* C2: every operation is executed at most once, and exactly once by the time
\* DoOperation returns; from the caller's m_operation = op until its return
\* the slot holds that operation; a caller woken from m_operation_done finds
\* its Execute finished.  EINTR on either semaphore changes none of this.
C2_ExactlyOnce ==
    /\ \A i \in 1..MaxOps : execCount[i] <= 1
    /\ \A t \in Clients :
          /\ pc[t] \in {"do_post", "do_wait", "do_unlock"}
                => m_operation = myOp[t]
          /\ (pc[t] \in {"do_unlock", "idle"} /\ myOp[t] # NoOp)
                => /\ execCount[myOp[t].id] = 1
                   /\ \A e \in executing : e[1] # myOp[t].id

\* a call has returned in a run in which sem_wait was interrupted as often
\* as the bound allows
C2_Witness ==
    /\ eintr = MaxEintr
    /\ \E t \in Clients : pc[t] = "idle" /\ myOp[t] # NoOp

\* C3: every trace request is issued by the operation thread, but for the
\* PTRACE_TRACEME of the forked child.
C3_OwnerIssuesTrace ==
    \A r \in traceIssued :
        \/ r[1] = OwnerThread
        \/ r = <<"child", "PTRACE_TRACEME">>

\* requests of a caller's and of the monitor thread's operation were issued
C3_Witness ==
    /\ <<OwnerThread, "PTRACE_PEEKDATA">> \in traceIssued
    /\ <<OwnerThread, "PTRACE_GETSIGINFO">> \in traceIssued

\* C4: while the operation thread is in its serve loop, an Operation placed
\* in the slot is eventually executed and its caller returns from
\* DoOperation; and the operation thread does not stay on m_operation_pending
\* while the semaphore is posted.
C4_OperationsComplete ==
    /\ \A t \in Clients :
          (pc[t] \in {"do_post", "do_wait"} /\ OwnerServing) ~> (pc[t] = "idle")
    /\ (ownerPc = "serve_wait" /\ m_operation_pending > 0)
          ~> (ownerPc = "serve_exec")

\* a caller waits on m_operation_done while the operation thread has not yet
\* taken the post of m_operation_pending
C4_Witness ==
    \E t \in Clients :
        /\ pc[t] = "do_wait"
        /\ ownerPc = "serve_wait"
        /\ m_operation_pending > 0

\* C5: when StopOpThread has put EXIT_OPERATION in the slot, the operation
\* thread leaves its loop without executing anything: it is never at the
\* Execute call with the sentinel in the slot, and the process survives.
C5_ExitSentinelLeavesLoop ==
    /\ ~(ownerPc = "serve_exec" /\ m_operation = EXIT_OPERATION)
    /\ ~crashed

\* C6: after a failed bootstrap the constructor does not block (it is never
\* on m_operation_done with the operation thread gone and nothing posted),
\* and the monitor thread is not started.
C6_FailedBootstrapReturns ==
    args_error =>
        /\ m_monitor_thread = "invalid"
        /\ ~(/\ pc[MainThread] = "do_wait"
             /\ ownerPc = "returned"
             /\ m_operation_done = 0)

\* C7: an API call begun after StopMonitor puts no operation in the funnel
\* and does not wait on m_operation_done.
C7_CallAfterStopRefused ==
    \A t \in Clients : afterStop[t] => pc[t] \notin {"do_post", "do_wait"}

----------------------------------------------------------------------------
(* The memory operations' properties (MemSpec).                            *)

\* the positions of the requests of one kind in a log
Requests(log, req) == {i \in 1..Len(log) : log[i].req = req}

\* C8: a WriteMemory(A, B, n) that returned n, followed by ReadMemory(A, n)
\* with the inferior not run in between and no trace request failing for a
\* reason of its own, reads n bytes and they are B - for every n, multiple of
\* the word size or not, and every A, aligned or not.
C8_MemoryRoundTrip ==
    (/\ phase = "read"
     /\ wr.valid
     /\ wr.n = wr.size
     /\ rd.addr = wr.addr
     /\ rd.size = wr.size
     /\ rd.failAt = 0)
        => /\ rd.n = wr.size
           /\ rd.error = "ok"
           /\ rd.buf = wr.buf

\* an unaligned write of more than a word and not a whole number of words
\* was read back
C8_Witness ==
    /\ phase = "read"
    /\ wr.valid
    /\ wr.n = wr.size
    /\ wr.size > word_size
    /\ wr.size % word_size # 0
    /\ wr.addr % word_size # 0
    /\ rd.addr = wr.addr
    /\ rd.size = wr.size
    /\ rd.failAt = 0
    /\ rd.buf = wr.buf

\* C9: WriteMemory(A, B, n) leaves every byte outside [A, A+n) as it was,
\* whatever it returns: the byte at A-1, the byte at A+n and the rest of the
\* trailing word among them.
C9_WriteFrame ==
    wr.valid =>
        \A a \in Mapped :
            (a < wr.addr \/ a >= wr.addr + wr.size) => mem[a] = wr.before[a]

\* a write that ends inside a word went through, with a mapped byte before
\* and a mapped byte after its range
C9_Witness ==
    /\ wr.valid
    /\ wr.n = wr.size
    /\ wr.size % word_size # 0
    /\ (wr.addr - 1) \in Mapped
    /\ (wr.addr + wr.size) \in Mapped
    /\ mem[wr.addr] # wr.before[wr.addr]

\* C10: a WriteMemory of n bytes that returned n issued ceil(n / word_size)
\* pokes; no peek when n is a multiple of the word size; otherwise one peek,
\* of the trailing word, right before that word's poke, which is the last
\* request.
C10_WriteRequests ==
    (wr.valid /\ wr.n = wr.size) =>
        LET log == wr.log
            pokes == Requests(log, "PTRACE_POKEDATA")
            peeks == Requests(log, "PTRACE_PEEKDATA")
            trailing == wr.addr + (wr.size \div word_size) * word_size
        IN  /\ Cardinality(pokes) = (wr.size + word_size - 1) \div word_size
            /\ pokes \cup peeks = 1..Len(log)
            /\ wr.size % word_size = 0 => peeks = {}
            /\ wr.size % word_size # 0 =>
                  /\ peeks = {Len(log) - 1}
                  /\ log[Len(log) - 1].addr = trailing
                  /\ log[Len(log)].addr = trailing

\* a write of one byte: a peek, then a poke, of the same word
C10_Witness ==
    /\ wr.valid
    /\ wr.size = 1
    /\ wr.n = 1
    /\ Len(wr.log) = 2
    /\ wr.log[1].req = "PTRACE_PEEKDATA"
    /\ wr.log[2].req = "PTRACE_POKEDATA"

\* C11: a ReadMemory stops at the first peek that fails: that peek is the last
\* request, the count returned is that of the whole words peeked before it
\* (less than the size asked for), the bytes past the count are untouched and
\* the error is the errno; with no failing peek the count is the size asked
\* for.  The count never exceeds the size.
C11_ReadStopsAtFailure ==
    rd.valid =>
        LET log == rd.log
            failed == {i \in 1..Len(log) : log[i].errno # "ok"}
        IN  /\ \A i \in 1..Len(log) : log[i].req = "PTRACE_PEEKDATA"
            /\ rd.n <= rd.size
            /\ failed = {} =>
                  /\ rd.n = rd.size
                  /\ rd.error = "ok"
            /\ failed # {} =>
                  /\ failed = {Len(log)}
                  /\ rd.n = word_size * (Len(log) - 1)
                  /\ rd.n < rd.size
                  /\ rd.error = log[Len(log)].errno
                  /\ \A k \in 1..rd.size :
                        rd.buf[k] = IF k <= rd.n THEN mem[rd.addr + k - 1]
                                    ELSE Unset

\* the second peek of a read of more than a word failed: one word was
\* delivered
C11_Witness ==
    /\ rd.valid
    /\ rd.size > word_size
    /\ Len(rd.log) = 2
    /\ rd.log[2].errno # "ok"
    /\ rd.n = word_size

----------------------------------------------------------------------------
(* The monitor thread's properties (WaitSpec).                             *)

\* the last wake-up was a stop whose signal info was read
Classified == cb.valid /\ ~cb.in.exited /\ cb.in.avail = "ok"

\* C12: on an exit the callback sends Exit(pid, status) and nothing else,
\* makes no funnel call, and asks for the monitoring to stop exactly when pid
\* is the thread-group leader: the monitor thread then ends, and otherwise
\* goes back to its wait.
C12_ExitReported ==
    (cb.valid /\ cb.in.exited) =>
        /\ cb.msgs = <<Exit(cb.in.pid, cb.in.status)>>
        /\ cb.ops = <<>>
        /\ cb.stop <=> (cb.in.pid = ProcessID)
        /\ pc[MonitorThread] =
              IF cb.in.pid = ProcessID THEN "exited" ELSE "idle"

\* the leader exited with status 0 and the monitor thread ended
C12_Witness ==
    /\ cb.valid
    /\ cb.in.exited
    /\ cb.in.pid = ProcessID
    /\ cb.msgs = <<Exit(ProcessID, 0)>>
    /\ pc[MonitorThread] = "exited"

\* the message kinds of the trap classifier's table
TrapEventKinds == {"NewThread", "Exec", "Limbo", "Trace", "Break", "Watch"}

\* C13: for a SIGTRAP stop the message is the one the table gives for
\* si_code: 773 (clone) -> NewThread(pid, event message), 1029 (exec) ->
\* Exec(pid), 1541 (exit) -> Limbo(pid, event message >> 8), 0 or 2 ->
\* Trace(pid), 128 or 1 -> Break(pid), 4 -> Watch(pid, si_addr); a code
\* outside the table that is no system-call stop (5, 133) reaches
\* assert(false) - the process ends there, or the build has no asserts - and
\* gives none of these messages.
C13_TrapTable ==
    (Classified /\ cb.in.si_signo = 5) =>
        LET w == cb.in
            c == w.si_code
        IN  /\ (c = 773 /\ w.evOk) => cb.msgs = <<NewThread(w.pid, w.evData)>>
            /\ c = 1029 => cb.msgs = <<Exec(w.pid)>>
            /\ (c = 1541 /\ w.evOk) =>
                  cb.msgs = <<Limbo(w.pid,
                                    [i \in 1..word_size |->
                                        IF i < word_size THEN w.evData[i + 1]
                                        ELSE 0])>>
            /\ c \in {0, 2} => cb.msgs = <<Trace(w.pid)>>
            /\ c \in {128, 1} => cb.msgs = <<Break(w.pid)>>
            /\ c = 4 => cb.msgs = <<Watch(w.pid, w.si_addr)>>
            /\ c \notin {773, 1029, 1541, 0, 2, 128, 1, 4, 5, 133} =>
                  /\ cb.aborted \/ ndebug
                  /\ \A i \in 1..Len(cb.msgs) :
                        cb.msgs[i].kind \notin TrapEventKinds

\* an exit event whose event message is the wait status of exit(3): the
\* message is Limbo with the status 3
C13_Witness ==
    /\ Classified
    /\ cb.in.si_signo = 5
    /\ cb.in.si_code = 1541
    /\ cb.in.evOk
    /\ cb.in.evData[2] = 3
    /\ cb.msgs = <<Limbo(cb.in.pid, WordOf(3))>>

\* C14: for a stop with a signal other than SIGTRAP: with si_code SI_USER (0)
\* or SI_TKILL (-6) the message is SignalDelivered(pid, signo) when si_pid is
\* the debugger's pid and Signal(pid, signo) otherwise, never Crash; with
\* another si_code and signo one of SIGSEGV, SIGILL, SIGFPE, SIGBUS it is
\* Crash(pid, reason, signo, si_addr); in every other case Signal(pid, signo).
C14_SignalTable ==
    (Classified /\ cb.in.si_signo # 5) =>
        LET w == cb.in
        IN  /\ Len(cb.msgs) = 1
            /\ (w.si_code \in {0, -6} /\ w.si_pid = getpid) =>
                  cb.msgs[1] = SignalDelivered(w.pid, w.si_signo)
            /\ (w.si_code \in {0, -6} /\ w.si_pid # getpid) =>
                  cb.msgs[1] = Signal(w.pid, w.si_signo)
            /\ (w.si_code \notin {0, -6} /\ w.si_signo \in {11, 4, 8, 7}) =>
                  cb.msgs[1] = Crash(w.pid, GetCrashReason(w), w.si_signo,
                                     w.si_addr)
            /\ (w.si_code \notin {0, -6} /\ w.si_signo \notin {11, 4, 8, 7}) =>
                  cb.msgs[1] = Signal(w.pid, w.si_signo)

\* a SIGSEGV sent by another process with kill: a Signal, not a Crash
C14_Witness ==
    /\ Classified
    /\ cb.in.si_signo = 11
    /\ cb.in.si_code = 0
    /\ cb.in.si_pid # getpid
    /\ cb.msgs = <<Signal(cb.in.pid, 11)>>

\* what the variant of the message may depend on
ClassifierInputs(w) ==
    <<w.exited, w.avail, w.si_signo, w.si_code, w.si_pid>>

\* C15: a wake-up sends at most one message, and its variant is decided by
\* (exited, whether and with which errno GetSignalInfo failed, si_signo,
\* si_code, si_pid): any wake-up with the same values for which a message is
\* sent gets a message of the same variant.
C15_OneMessagePerWakeUp ==
    cb.valid =>
        /\ Len(cb.msgs) <= 1
        /\ \A w \in ExitedWakeUps \cup StoppedWakeUps :
              LET r == MonitorCallback(w, ndebug)
              IN  (/\ ClassifierInputs(w) = ClassifierInputs(cb.in)
                   /\ r.msgs # <<>>
                   /\ cb.msgs # <<>>)
                     => /\ Len(r.msgs) = 1
                        /\ r.msgs[1].kind = cb.msgs[1].kind

\* a signal sent by the debugger itself stopped a thread that is not the
\* leader: SignalDelivered, as for the leader
C15_Witness ==
    /\ Classified
    /\ cb.in.pid # ProcessID
    /\ cb.in.si_signo = SIGSTOP
    /\ cb.in.si_code = SI_TKILL
    /\ cb.in.si_pid = getpid
    /\ cb.msgs = <<SignalDelivered(cb.in.pid, SIGSTOP)>>

\* the last wake-up was a system-call stop
SyscallStopSeen ==
    /\ Classified
    /\ cb.in.si_signo = 5
    /\ cb.in.si_code \in {5, 133}

\* C16, as claimed: on a system-call stop the thread is resumed with no
\* signal and SendMessage is not called.
C16_SyscallStopSilent ==
    SyscallStopSeen =>
        /\ cb.ops = <<GetSignalInfo(cb.in.pid), Resume(cb.in.pid, 0)>>
        /\ cb.msgs = <<>>

\* C16, amended: on a system-call stop the thread is resumed with no signal
\* and none of the ten messages is sent; SendMessage is called once, with
\* the default-constructed message, of kind Invalid, that MonitorSIGTRAP
\* returned, and the monitoring goes on.
C16_SyscallStopInvalidMessage ==
    SyscallStopSeen =>
        /\ cb.ops = <<GetSignalInfo(cb.in.pid), Resume(cb.in.pid, 0)>>
        /\ cb.msgs = <<InvalidMessage>>
        /\ ~cb.stop
        /\ ~cb.aborted

\* a stop with si_code SIGTRAP | 0x80 was resumed
C16_Witness ==
    /\ SyscallStopSeen
    /\ cb.in.si_code = 133
    /\ cb.ops[2] = Resume(cb.in.pid, 0)

\* C17: when GetSignalInfo fails with EINVAL the callback calls
\* Resume(pid, SIGSTOP) through the funnel, sends no message and does not ask
\* for the monitoring to stop: the monitor thread goes back to its wait,
\* unless the resume failed in a build with asserts, which ends the process.
C17_GroupStop ==
    (cb.valid /\ ~cb.in.exited /\ cb.in.avail = "EINVAL") =>
        /\ cb.ops = <<GetSignalInfo(cb.in.pid), Resume(cb.in.pid, 19)>>
        /\ cb.msgs = <<>>
        /\ ~cb.stop
        /\ cb.aborted <=> (~cb.in.resumeOk /\ ~ndebug)
        /\ ~cb.aborted => pc[MonitorThread] = "idle"

\* a group-stop was resumed with SIGSTOP and the monitor thread waits again
C17_Witness ==
    /\ cb.valid
    /\ cb.in.avail = "EINVAL"
    /\ cb.in.resumeOk
    /\ Len(cb.ops) = 2
    /\ cb.ops[2].signo = SIGSTOP
    /\ pc[MonitorThread] = "idle"

\* C18: when GetSignalInfo fails with another errno: for the thread-group
\* leader Exit(pid, status) is sent and the monitor thread ends; for any
\* other thread nothing is sent and the monitor thread goes back to its wait.
C18_SiginfoFailure ==
    (cb.valid /\ ~cb.in.exited /\ cb.in.avail \notin {"ok", "EINVAL"}) =>
        IF cb.in.pid = ProcessID
        THEN /\ cb.msgs = <<Exit(cb.in.pid, cb.in.status)>>
             /\ cb.stop
             /\ pc[MonitorThread] = "exited"
        ELSE /\ cb.msgs = <<>>
             /\ ~cb.stop
             /\ pc[MonitorThread] = "idle"

\* GetSignalInfo failed with ESRCH for a thread that is not the leader:
\* nothing was sent
C18_Witness ==
    /\ cb.valid
    /\ cb.in.avail = "ESRCH"
    /\ cb.in.pid # ProcessID
    /\ cb.msgs = <<>>
    /\ pc[MonitorThread] = "idle"

----------------------------------------------------------------------------
(* The properties of new threads (CloneSpec).                              *)

\* C19: a NewThread message for a child T is sent to the Process Object only
\* after a SIGSTOP of user origin was seen for T and T is in the set of
\* initial stops, whichever of the clone trap and the SIGSTOP comes first.
C19_NoAnnounceBeforeInitialStop ==
    \A i \in 1..Len(cl.sent) :
        cl.sent[i].kind = "NewThread" =>
            LET T == TidOf(cl.sent[i].child)
            IN  /\ T \in cl.stopSeen
                /\ T \in cl.initialStops

\* how many times NewThread(leader, T) was sent
NewThreadCount(T) ==
    Cardinality({i \in 1..Len(cl.sent) :
                    cl.sent[i] = NewThread(ProcessID, WordOf(T))})

\* C20: NewThread(parent, T) is sent once for the clone of T and never
\* twice: not before the clone trap was waited for, and once from then on,
\* whether the monitor thread or StopThread got the trap and whatever
\* happened to the initial SIGSTOP of T; no other NewThread is sent.
C20_NewThreadOnce ==
    /\ \A T \in Children :
          NewThreadCount(T) =
              IF T \in cl.trapByMonitor \cup cl.trapByStopper THEN 1 ELSE 0
    /\ \A i \in 1..Len(cl.sent) :
          cl.sent[i].kind = "NewThread" =>
              \E T \in cl.trapped :
                  cl.sent[i] = NewThread(ProcessID, WordOf(T))

\* StopThread got the clone trap of T while the monitor thread got the
\* initial SIGSTOP of T, and NewThread was sent once
C20_Witness ==
    \E T \in Children :
        /\ T \in cl.trapByStopper
        /\ cb.valid
        /\ cb.in = InitialStop(T)
        /\ NewThreadCount(T) = 1

\* C21: the messages are sent in the order in which waitpid returned the
\* stops they are for, also while StopThread waits for stops of the group
\* at the same time as the monitor thread.
C21_MessagesInKernelOrder ==
    \A i, j \in 1..Len(cl.sentFor) :
        i < j => cl.sentFor[i] < cl.sentFor[j]

----------------------------------------------------------------------------
(* The properties of StopThread (StopSpec).                                *)

\* StopThread returned true only for its own SIGSTOP on the target, or a
\* Limbo or an Exit of the target
C22_TrueOnlyForTarget ==
    (cl.turn.valid /\ cl.turn.ret = "true") =>
        LET t == cl.turn
            w == t.in
        IN  /\ w.pid = t.tid
            /\ \/ w.exited /\ t.msgs = <<Exit(w.pid, w.status)>>
               \/ /\ ~w.exited
                  /\ w.si_signo = 5
                  /\ w.si_code = 1541
                  /\ Len(t.msgs) = 1
                  /\ t.msgs[1].kind = "Limbo"
               \/ /\ ~w.exited
                  /\ w.si_signo = 19
                  /\ w.si_code = -6
                  /\ w.si_pid = getpid
                  /\ t.msgs = <<>>

\* an event of another thread, an exit or a stop whose signal info was read,
\* has its message sent and does not end the wait
C22_OthersForwarded ==
    LET t == cl.turn
        w == t.in
    IN  (/\ t.valid
         /\ ~t.asserted
         /\ ~t.unreachable
         /\ w.pid # t.tid
         /\ w.exited \/ w.avail = "ok")
            => /\ t.ret = "again"
               /\ t.msgs = <<IF w.exited THEN Exit(w.pid, w.status)
                             ELSE IF w.si_signo = 5
                             THEN MonitorSIGTRAP(w).message
                             ELSE MonitorSignal(w)>>

\* C22: after its tgkill StopThread(tid) returns true only when it saw, for
\* the thread tid itself, the SIGSTOP it sent (SI_TKILL, from the debugger),
\* a Limbo or an Exit; the events of other threads are classified and sent
\* to the Process Object, and do not end the wait.
C22_StopThreadReturns ==
    /\ C22_TrueOnlyForTarget
    /\ C22_OthersForwarded

----------------------------------------------------------------------------
(* The bootstrap on the operation thread: ProcessMonitor::Attach.          *)

\* what stays as it is while Attach or Launch runs on the operation thread
bootFrame == <<ndebug, cb, cl, rg, jit, memVars, funnelVars, m_operation_thread,
               m_monitor_thread, sems_destroyed, error, stopOpFrom,
               monitorStop, nextId, eintr, lockOrder, execOrder, executing,
               execCount, afterStop>>

\* the constructor has started the operation thread and waits for it to post
\* args->m_semaphore
OperationThreadStarted ==
    /\ pc = [t \in Funnelers |->
                IF t = MainThread THEN "ctor_wait"
                ELSE IF t = MonitorThread THEN "notstarted" ELSE "idle"]
    /\ ownerPc = "bootstrap"
    /\ m_operation_thread = "joinable"
    /\ m_monitor_thread = "invalid"
    /\ m_operation_mutex = "free"
    /\ m_operation = EXIT_OPERATION
    /\ m_operation_pending = 0
    /\ m_operation_done = 0
    /\ sems_destroyed = FALSE
    /\ args_semaphore = 0
    /\ args_error = FALSE
    /\ error = "none"
    /\ myOp = [t \in Funnelers |-> NoOp]
    /\ stopOpFrom = "none"
    /\ monitorStop = FALSE
    /\ crashed = FALSE
    /\ nextId = 0
    /\ eintr = 0
    /\ lockOrder = <<>>
    /\ execOrder = <<>>
    /\ executing = {}
    /\ execCount = [i \in 1..MaxOps |-> 0]
    /\ traceIssued = {}
    /\ afterStop = [t \in Clients |-> FALSE]
    /\ MemQuiet
    /\ cb = NoCallback
    /\ cl = NoClone
    /\ rg = NoRegs
    /\ jit = NoJit

\* the most tasks the process attached to has over the whole of Attach
MaxTasks == 3

LLDB_INVALID_PROCESS_ID == 0

\* the process attached to when Attach does not refuse: its thread group
\* leader is the task of the same id
TargetPid == 2

\* the tasks the target may have
Tasks == TargetPid..(TargetPid + MaxTasks - 1)

\* the pids Attach is called with (lldb::pid_t is unsigned)
AttachPids == {0, 1, TargetPid}

\* tids_to_attach.end()
End == 0

\* if (pid <= 1)
AttachRefusesOnlyZero(pid) == pid < 1
AttachRefuses(pid) == pid <= 1

\* Host::TidMap, a std::map<lldb::pid_t, bool>: its iterators go through the
\* keys in ascending order
Begin(m) ==
    IF DOMAIN m = {} THEN End
    ELSE CHOOSE t \in DOMAIN m : \A u \in DOMAIN m : t <= u

Successor(m, t) ==
    LET later == {u \in DOMAIN m : u > t}
    IN  IF later = {} THEN End
        ELSE CHOOSE u \in later : \A v \in later : u <= v

Erased(m, t) == [u \in DOMAIN m \ {t} |-> m[u]]

\* Host::FindProcessThreads(pid, tids_to_attach): every task of the process
\* that is not in the map is inserted as not attached; true when one was
FindProcessThreads(alive, m) ==
    [found |-> alive \ DOMAIN m # {},
     tids  |-> [t \in DOMAIN m \cup alive |->
                    IF t \in DOMAIN m THEN m[t] ELSE FALSE]]

Step(step, tid, res) == [step |-> step, tid |-> tid, res |-> res]

\* Attach(args) is entered
Attaching ==
    {[mode |-> "attach", pc |-> "start", pid |-> p,
      alive |-> IF p = TargetPid THEN {TargetPid} ELSE {},
      born |-> IF p = TargetPid THEN {TargetPid} ELSE {},
      tids |-> <<>>, it |-> End, listed |-> {}, esrch |-> {},
      skipped |-> FALSE, log |-> <<>>, err |-> "none",
      m_pid |-> LLDB_INVALID_PROCESS_ID, m_terminal_fd |-> -1,
      sent |-> <<>>] : p \in AttachPids}

AttachRunning ==
    /\ boot.mode = "attach"
    /\ boot.pc \in {"start", "enumerate", "loop", "publish", "finish"}

\* a running task of the target clones
TaskCreated ==
    /\ AttachRunning
    /\ \E t \in Tasks \ boot.born, by \in boot.alive :
          /\ ~(by \in DOMAIN boot.tids /\ boot.tids[by])
          /\ boot' = [boot EXCEPT !.alive = @ \cup {t}, !.born = @ \cup {t}]
    /\ UNCHANGED <<bootFrame, pc, ownerPc, crashed, args_semaphore,
                   args_error, traceIssued>>

\* a task of the target that is not the leader exits
TaskExits ==
    /\ AttachRunning
    /\ \E t \in boot.alive \ {boot.pid} :
          boot' = [boot EXCEPT !.alive = @ \ {t}]
    /\ UNCHANGED <<bootFrame, pc, ownerPc, crashed, args_semaphore,
                   args_error, traceIssued>>

\* if (pid <= 1) { ...; goto FINISH; }
AttachStart ==
    /\ boot.mode = "attach"
    /\ boot.pc = "start"
    /\ boot' = IF AttachRefuses(boot.pid)
               THEN [boot EXCEPT !.err = "Attaching to process 1 is not allowed.",
                                 !.pc = "finish"]
               ELSE [boot EXCEPT !.pc = "enumerate"]
    /\ UNCHANGED <<bootFrame, pc, ownerPc, crashed, args_semaphore,
                   args_error, traceIssued>>

\* while (Host::FindProcessThreads(pid, tids_to_attach)), and the start of
\* the for loop over the map
AttachEnumerates ==
    /\ boot.mode = "attach"
    /\ boot.pc = "enumerate"
    /\ LET f == FindProcessThreads(boot.alive, boot.tids)
       IN  boot' = [boot EXCEPT !.tids = f.tids,
                                !.listed = boot.alive,
                                !.it = IF f.found THEN Begin(f.tids) ELSE End,
                                !.pc = IF f.found THEN "loop" ELSE "publish"]
    /\ UNCHANGED <<bootFrame, pc, ownerPc, crashed, args_semaphore,
                   args_error, traceIssued>>

\* what one pass of the loop body does with the task tid: the requests made
\* and their results. The task has gone when the answer is ESRCH; the leader
\* of the thread group does not go while Attach runs (see TaskExits).
TaskOutcomes(b, tid) ==
    IF b.tids[tid] THEN {<<>>}
    ELSE IF tid \notin b.alive
    THEN {<<Step("attach", tid, "ESRCH")>>}
    ELSE {<<Step("attach", tid, "EPERM")>>,
          <<Step("attach", tid, "ok"), Step("wait", tid, "EINTR")>>,
          <<Step("attach", tid, "ok"), Step("wait", tid, "ok"),
            Step("options", tid, "EIO")>>,
          <<Step("attach", tid, "ok"), Step("wait", tid, "ok"),
            Step("options", tid, "ok"), Step("handle", tid, "ok")>>}
         \cup (IF tid = b.pid THEN {}
               ELSE {<<Step("attach", tid, "ok"), Step("wait", tid, "ESRCH")>>})

Last(seq) == seq[Len(seq)]

\* the iterator after the pass: ++it, or, after tids_to_attach.erase(it) and
\* continue, ++it of an iterator that is no longer valid, which has no
\* defined result
AfterTask(b, o, next) ==
    LET gone == o # <<>> /\ Last(o).res = "ESRCH"
        failed == o # <<>> /\ Last(o).res \notin {"ok", "ESRCH"}
        tids == IF gone THEN Erased(b.tids, b.it)
                ELSE IF o # <<>> /\ Last(o).step = "handle"
                THEN [b.tids EXCEPT ![b.it] = TRUE]
                ELSE b.tids
        it == IF gone THEN next ELSE Successor(b.tids, b.it)
    IN  [b EXCEPT !.tids = tids,
                  !.log = @ \o o,
                  !.alive = IF gone THEN @ \ {b.it} ELSE @,
                  !.esrch = IF gone THEN @ \cup {b.it} ELSE @,
                  !.skipped = @ \/ (gone /\ next # Successor(b.tids, b.it)),
                  !.err = IF failed THEN "errno" ELSE @,
                  !.it = IF failed THEN b.it ELSE it,
                  !.pc = IF failed THEN "finish"
                         ELSE IF it = End THEN "enumerate" ELSE "loop"]

\* one pass of the body of the for loop
AttachTask ==
    /\ boot.mode = "attach"
    /\ boot.pc = "loop"
    /\ \E o \in TaskOutcomes(boot, boot.it) :
       \E next \in DOMAIN Erased(boot.tids, boot.it) \cup {End} :
       \E dies \in BOOLEAN :
          LET gone == o # <<>> /\ Last(o).res = "ESRCH" IN
          /\ ~gone => next = Successor(boot.tids, boot.it) /\ ~dies
          /\ IF dies
             THEN /\ boot' = [boot EXCEPT !.log = @ \o o,
                                          !.esrch = @ \cup {boot.it},
                                          !.skipped = TRUE,
                                          !.pc = "crashed"]
                  /\ ProcessDies
             ELSE /\ boot' = AfterTask(boot, o, next)
                  /\ UNCHANGED <<pc, ownerPc, crashed>>
    /\ UNCHANGED <<bootFrame, args_semaphore, args_error, traceIssued>>

\* after the loops: if (tids_to_attach.size() > 0) { monitor->m_pid = pid;
\* process.SendMessage(ProcessMessage::Trace(pid)); } else "No such process."
AttachPublishes ==
    /\ boot.mode = "attach"
    /\ boot.pc = "publish"
    /\ boot' = IF DOMAIN boot.tids # {}
               THEN [boot EXCEPT !.m_pid = boot.pid,
                                 !.log = @ \o <<Step("m_pid", boot.pid, "ok"),
                                                Step("Trace", boot.pid, "ok")>>,
                                 !.sent = Append(@, Trace(boot.pid)),
                                 !.pc = "finish"]
               ELSE [boot EXCEPT !.err = "No such process.", !.pc = "finish"]
    /\ UNCHANGED <<bootFrame, pc, ownerPc, crashed, args_semaphore,
                   args_error, traceIssued>>

\* the trace requests in the log of a bootstrap
RequestsOf(b) ==
    {<<OwnerThread, IF b.log[i].step = "attach" THEN "PTRACE_ATTACH"
                    ELSE "PTRACE_SETOPTIONS">> :
        i \in {j \in 1..Len(b.log) : b.log[j].step \in {"attach", "options"}}}

\* FINISH: return args->m_error.Success(); AttachOpThread posts
\* args->m_semaphore and returns when Attach failed, and goes on to
\* ServeOperation, which posts it, when not
AttachReturns ==
    /\ boot.mode = "attach"
    /\ boot.pc = "finish"
    /\ ownerPc = "bootstrap"
    /\ boot' = [boot EXCEPT !.pc = "returned"]
    /\ traceIssued' = traceIssued \cup RequestsOf(boot)
    /\ args_error' = (boot.err # "none")
    /\ args_semaphore' = args_semaphore + 1
    /\ ownerPc' = IF boot.err # "none" THEN "returned" ELSE "serve_wait"
    /\ UNCHANGED <<bootFrame, pc, crashed>>

AttachInit ==
    /\ OperationThreadStarted
    /\ ndebug = TRUE
    /\ boot \in Attaching

AttachNext ==
    \/ TaskCreated
    \/ TaskExits
    \/ AttachStart
    \/ AttachEnumerates
    \/ AttachTask
    \/ AttachPublishes
    \/ AttachReturns

AttachSpec == AttachInit /\ [][AttachNext]_vars

----------------------------------------------------------------------------
(* The bootstrap on the operation thread: ProcessMonitor::Launch.          *)

\* enum { ePtraceFailed = 1, eDupStdinFailed, ... , eSetGidFailed }: the
\* value of an enumerator is its place in the list
ExitCodes == <<"ePtraceFailed", "eDupStdinFailed", "eDupStdoutFailed",
               "eDupStderrFailed", "eChdirFailed", "eExecFailed",
               "eSetGidFailed">>

ExitCode(e) == CHOOSE i \in 1..Len(ExitCodes) : ExitCodes[i] = e

\* the steps of the child between fork and the new program, in the order it
\* takes them, and the enumerator each exits with when it fails
ChildSteps ==
    <<[step |-> "PTRACE_TRACEME", exit |-> "ePtraceFailed"],
      [step |-> "setgid",         exit |-> "eSetGidFailed"],
      [step |-> "stdin",          exit |-> "eDupStdinFailed"],
      [step |-> "stdout",         exit |-> "eDupStdoutFailed"],
      [step |-> "stderr",         exit |-> "eDupStderrFailed"],
      [step |-> "chdir",          exit |-> "eChdirFailed"],
      [step |-> "execve",         exit |-> "eExecFailed"]>>

\* what the launch may ask for: a file for each of the three standard
\* streams, a working directory
Redirects == {"stdin", "stdout", "stderr", "chdir"}

\* the child takes the step: a stream is redirected only when a file is
\* given for it, the directory changed only when one is given
Takes(req, step) == step \in Redirects => step \in req

\* the wait status of a child: exit(code), killed by the signal sig, stopped
\* by the signal sig
W_EXITCODE(code) == (code % 256) * 256
W_TERMSIG(sig) == sig
W_STOPCODE(sig) == sig * 256 + 127
WIFEXITED(status) == status % 128 = 0
WEXITSTATUS(status) == (status \div 256) % 256
WIFSTOPPED(status) == status % 256 = 127

SIGKILL == 9

\* the largest exit code a child ends with
MaxExitCode == 8

\* the exit codes that are no enumerator's
OtherExitCodes == {0} \cup ((Len(ExitCodes) + 1)..MaxExitCode)

\* how the child ends when no step of its own fails: in the new program,
\* killed, or with an exit code that is no enumerator's
ChildEnds == {"stopped", "killed"} \cup {"exited"}

\* the child runs until it exits or stops: fails is the set of the steps that
\* fail when taken. The new program stops with SIGTRAP before its first
\* instruction.
ChildStatus(req, fails) ==
    LET failing == {i \in 1..Len(ChildSteps) :
                       /\ Takes(req, ChildSteps[i].step)
                       /\ ChildSteps[i].step \in fails}
    IN  IF failing = {} THEN W_STOPCODE(SIGTRAP)
        ELSE LET first == CHOOSE i \in failing : \A j \in failing : i <= j
             IN  W_EXITCODE(ExitCode(ChildSteps[first].exit))

\* switch (WEXITSTATUS(status)) of the parent
ErrorStringWithoutSetGid(code) ==
    IF code = ExitCode("ePtraceFailed") THEN "Child ptrace failed."
    ELSE IF code = ExitCode("eDupStdinFailed") THEN "Child open stdin failed."
    ELSE IF code = ExitCode("eDupStdoutFailed") THEN "Child open stdout failed."
    ELSE IF code = ExitCode("eDupStderrFailed") THEN "Child open stderr failed."
    ELSE IF code = ExitCode("eChdirFailed")
    THEN "Child failed to set working directory."
    ELSE IF code = ExitCode("eExecFailed") THEN "Child exec failed."
    ELSE "Child returned unknown exit status."
ErrorString(code) ==
    IF code = ExitCode("ePtraceFailed") THEN "Child ptrace failed."
    ELSE IF code = ExitCode("eDupStdinFailed") THEN "Child open stdin failed."
    ELSE IF code = ExitCode("eDupStdoutFailed") THEN "Child open stdout failed."
    ELSE IF code = ExitCode("eDupStderrFailed") THEN "Child open stderr failed."
    ELSE IF code = ExitCode("eChdirFailed")
    THEN "Child failed to set working directory."
    ELSE IF code = ExitCode("eExecFailed") THEN "Child exec failed."
    ELSE IF code = ExitCode("eSetGidFailed") THEN "Child setgid failed."
    ELSE "Child returned unknown exit status."

\* the pid terminal.Fork returns to the parent, and the master side of the
\* pseudo terminal
ChildPid == 2
MasterFd == 3

\* Launch(args) is entered
Launching ==
    {[mode |-> "launch", pc |-> "fork", pid |-> ChildPid, req |-> r,
      fails |-> {}, status |-> 0, log |-> <<>>, err |-> "none",
      generic |-> FALSE, m_pid |-> LLDB_INVALID_PROCESS_ID,
      m_terminal_fd |-> -1, nonblocking |-> FALSE, sent |-> <<>>] :
        r \in SUBSET Redirects}

\* pid = terminal.Fork(...): -1, or the child runs
LaunchForks ==
    /\ boot.mode = "launch"
    /\ boot.pc = "fork"
    /\ \E ok \in BOOLEAN :
          boot' = IF ok
                  THEN [boot EXCEPT !.log = Append(@, Step("fork", boot.pid, "ok")),
                                    !.pc = "child"]
                  ELSE [boot EXCEPT !.err = "Process fork failed.",
                                    !.generic = TRUE,
                                    !.pc = "finish"]
    /\ UNCHANGED <<bootFrame, pc, ownerPc, crashed, args_semaphore,
                   args_error, traceIssued>>

\* the child, from fork to its first change of state: it exits with the
\* code of the first step that fails, or with a code of its own, or is
\* killed, or stops in the new program
LaunchChildRuns ==
    /\ boot.mode = "launch"
    /\ boot.pc = "child"
    /\ \E fails \in {{}} \cup {{ChildSteps[i].step} : i \in 1..Len(ChildSteps)},
          end \in ChildEnds, code \in OtherExitCodes :
          /\ end # "stopped" => fails = {}
          /\ end # "exited" => code = 0
          /\ boot' = [boot EXCEPT
                        !.fails = fails,
                        !.status = IF end = "stopped"
                                   THEN ChildStatus(boot.req, fails)
                                   ELSE IF end = "killed" THEN W_TERMSIG(SIGKILL)
                                   ELSE W_EXITCODE(code),
                        !.pc = "wait"]
    /\ UNCHANGED <<bootFrame, pc, ownerPc, crashed, args_semaphore,
                   args_error, traceIssued>>

\* raw_pid = waitpid(pid, &status, 0) and what follows it, up to the assert
AfterWait(b, ok) ==
    IF ~ok
    THEN [b EXCEPT !.log = Append(@, Step("wait", b.pid, "EINTR")),
                   !.err = "errno", !.pc = "finish"]
    ELSE IF WIFEXITED(b.status)
    THEN [b EXCEPT !.log = Append(@, Step("wait", b.pid, "exited")),
                   !.err = ErrorString(WEXITSTATUS(b.status)),
                   !.generic = TRUE,
                   !.pc = "finish"]
    ELSE [b EXCEPT !.log = Append(@, Step("wait", b.pid, "ok")),
                   !.pc = "options"]

LaunchWaits ==
    /\ boot.mode = "launch"
    /\ boot.pc = "wait"
    /\ \E ok \in BOOLEAN :
          LET b == AfterWait(boot, ok) IN
          IF b.pc = "options" /\ ~WIFSTOPPED(boot.status) /\ ~ndebug
          THEN /\ boot' = [b EXCEPT !.pc = "crashed"]
               /\ ProcessDies
          ELSE /\ boot' = b
               /\ UNCHANGED <<pc, ownerPc, crashed>>
    /\ UNCHANGED <<bootFrame, args_semaphore, args_error, traceIssued>>

\* if (!SetDefaultPtraceOpts(pid)) { SetErrorToErrno; goto FINISH; }
AfterOptionsIgnoringFailure(b, ok) ==
    [b EXCEPT !.log = Append(@, Step("options", b.pid, IF ok THEN "ok" ELSE "ESRCH")),
              !.pc = "publish"]
AfterOptions(b, ok) ==
    IF ok
    THEN [b EXCEPT !.log = Append(@, Step("options", b.pid, "ok")),
                   !.pc = "publish"]
    ELSE [b EXCEPT !.log = Append(@, Step("options", b.pid, "ESRCH")),
                   !.err = "errno", !.pc = "finish"]

\* the request fails when the child is not there any more
LaunchSetsOptions ==
    /\ boot.mode = "launch"
    /\ boot.pc = "options"
    /\ \E ok \in BOOLEAN :
          /\ ~WIFSTOPPED(boot.status) => ~ok
          /\ boot' = AfterOptions(boot, ok)
    /\ UNCHANGED <<bootFrame, pc, ownerPc, crashed, args_semaphore,
                   args_error, traceIssued>>

\* EnsureFDFlags(fd, O_NONBLOCK, error): F_GETFL, then F_SETFL; failed names
\* the request that fails
EnsureFDFlags(b, failed) ==
    IF failed = "none"
    THEN [b EXCEPT !.log = Append(@, Step("O_NONBLOCK", b.pid, "ok")),
                   !.nonblocking = TRUE,
                   !.pc = "thread"]
    ELSE [b EXCEPT !.log = Append(@, Step("O_NONBLOCK", b.pid, failed)),
                   !.err = "errno",
                   !.pc = "finish"]

\* monitor->m_terminal_fd = terminal.ReleaseMasterFileDescriptor();
\* monitor->m_pid = pid; if (!EnsureFDFlags(...)) goto FINISH;
LaunchPublishes ==
    /\ boot.mode = "launch"
    /\ boot.pc = "publish"
    /\ \E failed \in {"none", "F_GETFL", "F_SETFL"} :
          boot' = EnsureFDFlags(
                     [boot EXCEPT !.m_terminal_fd = MasterFd,
                                  !.m_pid = boot.pid,
                                  !.log = @ \o <<Step("m_terminal_fd", boot.pid, "ok"),
                                                 Step("m_pid", boot.pid, "ok")>>],
                     failed)
    /\ UNCHANGED <<bootFrame, pc, ownerPc, crashed, args_semaphore,
                   args_error, traceIssued>>

\* CreateNewPOSIXThread, AddThread, AddThreadForInitialStopIfNeeded(pid),
\* SendMessage(ProcessMessage::Trace(pid))
LaunchAddsThread ==
    /\ boot.mode = "launch"
    /\ boot.pc = "thread"
    /\ boot' = [boot EXCEPT !.log = @ \o <<Step("handle", boot.pid, "ok"),
                                          Step("Trace", boot.pid, "ok")>>,
                            !.sent = Append(@, Trace(boot.pid)),
                            !.pc = "finish"]
    /\ UNCHANGED <<bootFrame, pc, ownerPc, crashed, args_semaphore,
                   args_error, traceIssued>>

\* the trace requests of a Launch
LaunchRequests(b) ==
    {<<"child", "PTRACE_TRACEME">> :
        i \in {j \in 1..Len(b.log) : b.log[j].step = "fork"}}
    \cup {<<OwnerThread, "PTRACE_SETOPTIONS">> :
            i \in {j \in 1..Len(b.log) : b.log[j].step = "options"}}

\* FINISH: return args->m_error.Success(); LaunchOpThread posts
\* args->m_semaphore and returns when Launch failed, and goes on to
\* ServeOperation, which posts it, when not
LaunchReturns ==
    /\ boot.mode = "launch"
    /\ boot.pc = "finish"
    /\ ownerPc = "bootstrap"
    /\ boot' = [boot EXCEPT !.pc = "returned"]
    /\ traceIssued' = traceIssued \cup LaunchRequests(boot)
    /\ args_error' = (boot.err # "none")
    /\ args_semaphore' = args_semaphore + 1
    /\ ownerPc' = IF boot.err # "none" THEN "returned" ELSE "serve_wait"
    /\ UNCHANGED <<bootFrame, pc, crashed>>

LaunchInit ==
    /\ OperationThreadStarted
    /\ ndebug \in BOOLEAN
    /\ boot \in Launching

LaunchNext ==
    \/ LaunchForks
    \/ LaunchChildRuns
    \/ LaunchWaits
    \/ LaunchSetsOptions
    \/ LaunchPublishes
    \/ LaunchAddsThread
    \/ LaunchReturns

LaunchSpec == LaunchInit /\ [][LaunchNext]_vars

----------------------------------------------------------------------------
(* The properties of Attach (AttachSpec).                                  *)

\* C23: Attach to a pid of 1 or less is refused: an error is reported, and
\* there is no attach request, no thread handle, no published pid and no
\* message.
C23_AttachRefused ==
    (boot.mode = "attach" /\ boot.pid <= 1 /\ boot.pc # "start") =>
        /\ boot.err = "Attaching to process 1 is not allowed."
        /\ boot.log = <<>>
        /\ DOMAIN boot.tids = {}
        /\ boot.m_pid = LLDB_INVALID_PROCESS_ID
        /\ boot.sent = <<>>
        /\ traceIssued = {}
        /\ boot.pc = "returned" => args_error /\ ownerPc = "returned"

C23_Witness ==
    /\ boot.mode = "attach"
    /\ boot.pid = 1
    /\ boot.pc = "returned"
    /\ args_error

\* the steps Attach made for the task t, in the order it made them
StepsFor(b, t) ==
    LET forT(e) == e.tid = t /\ e.step \in {"attach", "wait", "options", "handle"}
    IN  SelectSeq(b.log, forT)

\* the steps of a task that is attached and recorded
AttachedSteps(t) ==
    <<Step("attach", t, "ok"), Step("wait", t, "ok"),
      Step("options", t, "ok"), Step("handle", t, "ok")>>

\* C24: when Attach succeeds, every task the last enumeration found was
\* attached, waited for, given the options and recorded with a handle, once
\* each and in this order; no task was attached twice; the pid is published
\* and one Trace(pid) is sent, after all the handles.
C24_AllTasksAttached ==
    (boot.mode = "attach" /\ boot.pc = "returned" /\ boot.err = "none") =>
        /\ \A t \in boot.listed : StepsFor(boot, t) = AttachedSteps(t)
        /\ \A t \in Tasks :
              Cardinality({i \in 1..Len(boot.log) :
                              boot.log[i] = Step("attach", t, "ok")}) <= 1
        /\ boot.m_pid = boot.pid
        /\ boot.sent = <<Trace(boot.pid)>>
        /\ Len(boot.log) >= 2
        /\ boot.log[Len(boot.log)] = Step("Trace", boot.pid, "ok")
        /\ boot.log[Len(boot.log) - 1] = Step("m_pid", boot.pid, "ok")

\* C25: a task whose attach or wait failed with ESRCH is skipped: it gets no
\* handle and no message, Attach does not fail because of it, and the other
\* tasks of the enumeration are still attached.
C25_VanishedTaskSkipped ==
    (boot.mode = "attach" /\ boot.esrch # {}) =>
        /\ \A t \in boot.esrch :
              /\ \A i \in 1..Len(boot.log) :
                    boot.log[i] # Step("handle", t, "ok")
              /\ \A i \in 1..Len(boot.sent) : boot.sent[i].tid # t
        /\ boot.pc # "crashed"
        /\ (boot.pc \in {"publish", "finish", "returned"} /\ boot.err = "none")
              => \A t \in DOMAIN boot.tids : boot.tids[t]

----------------------------------------------------------------------------
(* The properties of Launch (LaunchSpec).                                  *)

\* the steps of the parent in Launch, in the order of the code
LaunchOrder == <<"fork", "wait", "options", "m_terminal_fd", "m_pid",
                 "O_NONBLOCK", "handle", "Trace">>

StepNames(log) == [i \in 1..Len(log) |-> log[i].step]

\* C26: the parent in Launch waits for the child's stop, sets the trace
\* options, publishes the terminal descriptor and the pid, creates the thread
\* handle and sends Trace(pid), in this order; a step that fails sets the
\* error of the launch arguments and is the last step made, and no Trace is
\* sent.
C26_LaunchOrder ==
    boot.mode = "launch" =>
        /\ IsPrefix(StepNames(boot.log), LaunchOrder)
        /\ \A i \in 1..Len(boot.log) :
              boot.log[i].res # "ok"
                 => i = Len(boot.log) /\ boot.err # "none"
        /\ boot.err # "none" => boot.sent = <<>>
        /\ boot.sent # <<>> =>
              /\ boot.sent = <<Trace(boot.pid)>>
              /\ StepNames(boot.log) = LaunchOrder
        /\ boot.pc = "returned" =>
              /\ args_error = (boot.err # "none")
              /\ boot.err = "none" => boot.sent = <<Trace(boot.pid)>>

C26_Witness ==
    /\ boot.mode = "launch"
    /\ boot.pc = "returned"
    /\ StepNames(boot.log) = LaunchOrder
    /\ ~args_error

\* C27: the terminal descriptor of the monitor, when valid, is non-blocking;
\* also when setting the flag failed.
C27_TerminalNonBlocking ==
    boot.mode = "launch" =>
        (boot.m_terminal_fd >= 0 => boot.nonblocking)

\* C28: the bootstrap writes m_pid at most once and it does not change; it
\* is published only by a bootstrap that is reported to have succeeded.
C28_PidPublishedOnSuccess ==
    boot.mode \in {"launch", "attach"} =>
        /\ Cardinality({i \in 1..Len(boot.log) : boot.log[i].step = "m_pid"}) <= 1
        /\ boot.m_pid \in {LLDB_INVALID_PROCESS_ID, boot.pid}
        /\ (boot.pc = "returned" /\ boot.m_pid # LLDB_INVALID_PROCESS_ID)
              => ~args_error

\* the child ended with the exit code of a step of its own that failed
ChildStepFailed ==
    /\ boot.mode = "launch"
    /\ boot.pc \in {"finish", "returned"}
    /\ Len(boot.log) = 2
    /\ boot.log[2] = Step("wait", boot.pid, "exited")
    /\ \E i \in 1..Len(ChildSteps) :
          /\ Takes(boot.req, ChildSteps[i].step)
          /\ boot.fails = {ChildSteps[i].step}

\* C29: each step of the child that can fail exits with a code of its own
\* from 1 to 7; the parent gives each of these codes an error string of its
\* own and every other code 'unknown exit status'; the error is a generic
\* error.
C29_ChildExitCodes ==
    /\ \A i, j \in 1..Len(ChildSteps) :
          LET ci == ExitCode(ChildSteps[i].exit)
              cj == ExitCode(ChildSteps[j].exit)
          IN  /\ ci \in 1..7
              /\ ErrorString(ci) # "Child returned unknown exit status."
              /\ i # j => ci # cj /\ ErrorString(ci) # ErrorString(cj)
    /\ ChildStepFailed =>
          /\ WEXITSTATUS(boot.status) \in 1..7
          /\ boot.err = ErrorString(WEXITSTATUS(boot.status))
          /\ \E i \in 1..Len(ChildSteps) :
                /\ boot.fails = {ChildSteps[i].step}
                /\ WEXITSTATUS(boot.status) = ExitCode(ChildSteps[i].exit)
          /\ boot.generic
    /\ (/\ boot.mode = "launch"
        /\ boot.pc \in {"finish", "returned"}
        /\ Len(boot.log) = 2
        /\ boot.log[2] = Step("wait", boot.pid, "exited")
        /\ WEXITSTATUS(boot.status) \notin 1..7)
          => /\ boot.err = "Child returned unknown exit status."
             /\ boot.generic

C29_Witness ==
    /\ ChildStepFailed
    /\ boot.pc = "returned"
    /\ boot.fails = {"setgid"}
    /\ boot.err = "Child setgid failed."

----------------------------------------------------------------------------
(* The teardown: ProcessMonitor::StopMonitor.                              *)

\* the steps of StopMonitor and of the threads it waits for: a thread that
\* can take its next step takes it, and the call through the null pointer
\* comes out one way or the other
TeardownStep ==
    \/ MonitorExit
    \/ StopOpThreadNotJoinable
    \/ StopOpThread
    \/ ThreadJoin
    \/ StopMonitorDestroy

NullCallStep ==
    \/ ServeExecuteNullCrashes
    \/ ServeExecuteNullReturns

TeardownSpec ==
    /\ FairSpec
    /\ WF_vars(TeardownStep)
    /\ WF_vars(NullCallStep)

\* StopMonitor() was called and has not returned
TeardownBegun ==
    \/ pc[MainThread] = "stopmon_join"
    \/ pc[MainThread] = "stopop" /\ stopOpFrom = "StopMonitor"

\* StopMonitor() is through: both threads joined or never started, both
\* semaphores destroyed, the terminal closed
TeardownDone ==
    /\ pc[MainThread] = "torndown"
    /\ m_monitor_thread = "invalid"
    /\ m_operation_thread = "invalid"
    /\ sems_destroyed

\* the semaphores are destroyed only when the monitor thread and the
\* operation thread do not run
C30_SemaphoresUnused ==
    (sems_destroyed /\ ~crashed) =>
        /\ pc[MonitorThread] \in {"notstarted", "exited"}
        /\ ownerPc \in {"notstarted", "returned"}

\* C30: StopMonitor stops and joins the monitor thread, then sends the
\* operation thread EXIT_OPERATION and joins it, then destroys the two
\* semaphores, then closes the terminal; the semaphores are not destroyed
\* while one of the two threads can still use them; StopMonitor comes to its
\* end, with the terminal descriptor -1.
C30_Teardown ==
    /\ []C30_SemaphoresUnused
    /\ TeardownBegun ~> TeardownDone

----------------------------------------------------------------------------
(* The register operations: ReadRegOperation and WriteRegOperation.        *)

\* the most register operations in a row
MaxRegOps == 2

\* sizeof(struct user_pt_regs), which is sizeof(elf_gregset_t), and
\* sizeof(struct user_fpsimd_state), which is sizeof(elf_fpregset_t)
GPSize == 272
FPSize == 528

\* the builds: with PTRACE_GETREGSET only, or with PTRACE_PEEKUSER
Archs == {"arm64", "legacy"}

\* the offsets the operations are called with: at the start, at the end of
\* the general-purpose set, at the start and at the end of the
\* floating-point set
RegOffsets ==
    {0, 8, GPSize - 8, GPSize - 4, GPSize, GPSize + 1, GPSize + 16,
     GPSize + FPSize - 16, GPSize + FPSize - 8, GPSize + FPSize,
     GPSize + FPSize + 1}

RegNames == {"x0", "other"}

\* what lies behind a buffer on the stack
Garbage == {0, 255}

\* the registers the thread stopped with, byte by byte
Stopped0(run, i) == (i + 3 * run + 1) % 256

\* the value written: n bytes
ValueBytes(n) == [k \in 1..n |-> 170]

\* the byte i of the register set after the writes the kernel took
RECURSIVE ByteAt(_, _, _, _)
ByteAt(writes, run, set, i) ==
    IF writes = <<>> THEN Stopped0(run, IF set = "gp" THEN i ELSE GPSize + i)
    ELSE LET w == writes[Len(writes)]
         IN  IF w.set = set /\ i >= w.at /\ i < w.at + Len(w.bytes)
             THEN w.bytes[i - w.at + 1]
             ELSE ByteAt(SubSeq(writes, 1, Len(writes) - 1), run, set, i)

SetSize(set) == IF set = "gp" THEN GPSize ELSE FPSize

\* n bytes of the buffer regs from the byte at: what is past the end of the
\* buffer is not the buffer's
Slice(r, set, at, n, g) ==
    [k \in 1..n |-> IF at + k - 1 < SetSize(set)
                    THEN ByteAt(r.writes, r.run, set, at + k - 1)
                    ELSE g]

\* where the operation goes for m_offset: the set, the place in it and the
\* number of bytes, or nowhere
RegPlace(arch, m_offset) ==
    IF arch = "arm64"
    THEN IF m_offset > GPSize
         THEN IF m_offset - GPSize > FPSize
              THEN [set |-> "none", at |-> 0, len |-> 0]
              ELSE [set |-> "fp", at |-> m_offset - GPSize, len |-> 16]
         ELSE [set |-> "gp", at |-> m_offset, len |-> 8]
    ELSE \* PTRACE_PEEKUSER / PTRACE_POKEUSER take the offset of a word of
         \* the user area
         IF m_offset % 8 = 0 /\ m_offset + 8 <= GPSize
         THEN [set |-> "gp", at |-> m_offset, len |-> 8]
         ELSE [set |-> "none", at |-> 0, len |-> 0]

\* ReadRegOperation::Execute: kernel tells whether the request succeeds
ReadRegOperation(r, m_offset, m_reg_name, kernel, g) ==
    LET p == RegPlace(r.arch, m_offset)
    IN  IF p.set = "none" \/ ~kernel
        THEN [kind |-> "read", off |-> m_offset, name |-> m_reg_name,
              place |-> p, result |-> FALSE, value |-> <<>>]
        ELSE [kind |-> "read", off |-> m_offset, name |-> m_reg_name,
              place |-> p, result |-> TRUE,
              value |-> Slice(r, p.set, p.at, p.len, g)]

\* WriteRegOperation::Execute: the bytes of the value that fall into the
\* buffer go to the kernel with PTRACE_SETREGSET
WriteRegOperation(r, m_offset, m_reg_name, get, set) ==
    LET p == RegPlace(r.arch, m_offset)
        ok == p.set # "none" /\ get /\ set
        inside == IF p.at < SetSize(p.set)
                  THEN IF p.at + p.len <= SetSize(p.set) THEN p.len
                       ELSE SetSize(p.set) - p.at
                  ELSE 0
    IN  [op |-> [kind |-> "write", off |-> m_offset, name |-> m_reg_name,
                 place |-> p, result |-> ok,
                 value |-> IF p.set = "none" THEN <<>> ELSE ValueBytes(p.len)],
         writes |-> IF ok /\ inside > 0
                    THEN Append(r.writes, [set |-> p.set, at |-> p.at,
                                           bytes |-> ValueBytes(inside)])
                    ELSE r.writes,
         \* memcpy wrote past the end of regs
         smashed |-> p.set # "none" /\ get /\ p.at + p.len > SetSize(p.set)]

regFrame == <<ndebug, cb, cl, boot, jit, memVars, funnelVars, ctorVars,
              histVars>>

RegStarts ==
    {[mode |-> "regs", arch |-> a, run |-> 0, writes |-> <<>>, ops |-> <<>>] :
        a \in Archs}

\* ProcessMonitor::ReadRegisterValue
ReadRegisterValue ==
    /\ rg.mode = "regs"
    /\ Len(rg.ops) < MaxRegOps
    /\ \E off \in RegOffsets, name \in RegNames, kernel \in BOOLEAN,
          g \in Garbage :
          LET p == RegPlace(rg.arch, off) IN
          /\ (p.set = "none" \/ ~kernel \/ p.at + p.len <= SetSize(p.set))
                => g = 0
          /\ p.set = "none" => kernel
          /\ rg' = [rg EXCEPT
                      !.ops = Append(@, ReadRegOperation(rg, off, name, kernel, g))]
    /\ UNCHANGED <<regFrame, pc, ownerPc, crashed>>

\* ProcessMonitor::WriteRegisterValue: a memcpy past the end of the buffer
\* has no defined result; the process dies of it, or goes on
WriteRegisterValue ==
    /\ rg.mode = "regs"
    /\ Len(rg.ops) < MaxRegOps
    /\ \E off \in RegOffsets, get \in BOOLEAN, set \in BOOLEAN,
          dies \in BOOLEAN :
          LET w == WriteRegOperation(rg, off, "x0", get, set) IN
          /\ ~get => set
          /\ w.op.place.set = "none" => get /\ set
          /\ dies => w.smashed
          /\ IF dies
             THEN /\ rg' = [rg EXCEPT !.mode = "crashed"]
                  /\ ProcessDies
             ELSE /\ rg' = [rg EXCEPT !.ops = Append(@, w.op),
                                      !.writes = w.writes]
                  /\ UNCHANGED <<pc, ownerPc, crashed>>
    /\ UNCHANGED regFrame

\* the thread is resumed and stops again: its registers are others
RegThreadRuns ==
    /\ rg.mode = "regs"
    /\ rg.run = 0
    /\ rg' = [rg EXCEPT !.run = 1, !.writes = <<>>, !.ops = <<>>]
    /\ UNCHANGED <<regFrame, pc, ownerPc, crashed>>

RegInit ==
    /\ FunnelInit
    /\ MemQuiet
    /\ ndebug = TRUE
    /\ cb = NoCallback
    /\ cl = NoClone
    /\ boot = NoBoot
    /\ jit = NoJit
    /\ rg \in RegStarts

RegNext ==
    \/ ReadRegisterValue
    \/ WriteRegisterValue
    \/ RegThreadRuns

RegSpec == RegInit /\ [][RegNext]_vars

----------------------------------------------------------------------------
(* The properties of the register operations (RegSpec).                    *)

\* C31: with no run of the thread in between, two reads of a register one
\* after the other give the same value, and a write that returned true and
\* then a read at the same offset give the value written; the name of the
\* register makes no difference.
C31_RegisterRoundTrip ==
    rg.mode = "regs" =>
        \A i \in 1..(Len(rg.ops) - 1) :
            LET a == rg.ops[i]
                b == rg.ops[i + 1]
            IN  (/\ b.kind = "read"
                 /\ a.off = b.off
                 /\ a.result
                 /\ b.result) => a.value = b.value

\* C38: in the build with register sets only, the bytes taken from or put
\* into the buffer, 8 in the general-purpose set and 16 in the
\* floating-point set, lie inside the buffer, for every offset that is
\* accepted.
C38_SliceInsideBuffer ==
    (rg.mode = "regs" /\ rg.arch = "arm64") =>
        \A i \in 1..Len(rg.ops) :
            LET p == rg.ops[i].place
            IN  p.set # "none" => p.at + p.len <= SetSize(p.set)

----------------------------------------------------------------------------
(* A WriteMemory whose trace request fails.                                *)

\* the requests of a write that failed
FailedRequests(log) == {i \in 1..Len(log) : log[i].errno # "ok"}

\* C35: a WriteMemory stops at the first request that fails, which is its last
\* request.  When that request is the peek of the trailing partial word, no
\* poke of that word was issued, the word is as it was, the count returned is
\* that of the full words written before it and the error is the errno of
\* the peek; when it is the poke of a full word, the count returned is that
\* of the words poked before it and the error is the errno of the poke.
C35_WriteStopsAtFailure ==
    (wr.valid /\ FailedRequests(wr.log) # {}) =>
        LET log == wr.log
            last == log[Len(log)]
            full == (wr.size \div word_size) * word_size
            trailing == wr.addr + full
        IN  /\ FailedRequests(log) = {Len(log)}
            /\ wr.error = last.errno
            /\ last.req = "PTRACE_PEEKDATA" =>
                  /\ last.addr = trailing
                  /\ wr.size % word_size # 0
                  /\ \A i \in 1..Len(log) :
                        ~(log[i].req = "PTRACE_POKEDATA"
                          /\ log[i].addr = trailing)
                  /\ \A a \in Mapped :
                        a >= trailing => mem[a] = wr.before[a]
                  /\ wr.n = full
                  /\ Requests(log, "PTRACE_POKEDATA") = 1..(Len(log) - 1)
                  /\ Len(log) - 1 = wr.size \div word_size
            /\ (last.req = "PTRACE_POKEDATA" /\ Len(log) <= wr.size \div word_size) =>
                  /\ wr.n = word_size * (Len(log) - 1)
                  /\ wr.n < wr.size
                  /\ Requests(log, "PTRACE_POKEDATA") = 1..Len(log)
                  /\ \A a \in Mapped :
                        a >= wr.addr + wr.n => mem[a] = wr.before[a]

\* a full word was written and the peek of the trailing word failed
C35_Witness ==
    /\ wr.valid
    /\ wr.size > word_size
    /\ wr.size % word_size # 0
    /\ Len(wr.log) = 2
    /\ wr.log[1].req = "PTRACE_POKEDATA"
    /\ wr.log[1].errno = "ok"
    /\ wr.log[2].req = "PTRACE_PEEKDATA"
    /\ wr.log[2].errno # "ok"
    /\ wr.n = word_size
    /\ mem[wr.addr] # wr.before[wr.addr]

----------------------------------------------------------------------------
(* WriteMemory through the funnel.                                         *)

\* the addresses and sizes of the writes followed through the funnel: a
\* write of whole words, writes ending inside a word, a write past the map
FunnelAddrs == {0, 1, MemSize - word_size}
FunnelSizes == {1, word_size, MaxSize}

ServePositions == {"serve_wait", "serve_exec", "serve_executing", "serve_post"}

\* ProcessMonitor::WriteMemory: WriteOperation op(vm_addr, buf, size, error,
\* result); DoOperation(&op);
WriteMemoryCall(t) ==
    /\ pc[t] = "idle"
    /\ nextId < MaxOps
    /\ nextId' = nextId + 1
    /\ \E A \in FunnelAddrs, n \in FunnelSizes, seed \in Seeds :
          myOp' = [myOp EXCEPT ![t] =
                     [id |-> nextId + 1, kind |-> "WriteOperation",
                      m_addr |-> A, m_size |-> n,
                      m_buff |-> WriteBytes(seed, n)]]
    /\ pc' = [pc EXCEPT ![t] = "do_lock"]
    /\ UNCHANGED <<memVars, waitVars, ownerPc, m_operation_mutex, m_operation,
                   m_operation_pending, m_operation_done, ctorVars, crashed,
                   eintr, lockOrder, execOrder, executing, execCount,
                   traceIssued, afterStop>>

\* the mutant: the word is read with ProcessMonitor::ReadMemory, so that the
\* operation thread enters DoOperation and asks for the mutex
AfterPartialWordThroughFunnel(log) ==
    IF Requests(log, "PTRACE_PEEKDATA") # {} THEN "do_lock" ELSE "serve_post"

\* where the operation thread is once DoWriteMemory has returned: the word
\* is read and written back with the static DoReadMemory and DoWriteMemory,
\* plain calls that come back to Execute
AfterPartialWord(log) ==
    "serve_post"

\* WriteOperation::Execute on the operation thread
WriteExecute ==
    /\ ownerPc = "serve_executing"
    /\ m_operation.kind = "WriteOperation"
    /\ \E f \in 0..MaxFailAt, op \in {m_operation} :
          \E r \in {DoWriteMemory([mem |-> mem, log |-> <<>>, failAt |-> f],
                                  op.m_addr, op.m_buff, op.m_size, "ok")} :
              /\ mem' = r.st.mem
              /\ wr' = [valid |-> TRUE, addr |-> op.m_addr, size |-> op.m_size,
                        buf |-> op.m_buff, n |-> r.n, error |-> r.error,
                        failAt |-> f, log |-> r.st.log, before |-> mem,
                        id |-> op.id, holder |-> m_operation_mutex,
                        submitted |-> nextId]
              /\ traceIssued' = traceIssued \cup
                    {<<OwnerThread, r.st.log[i].req>> : i \in 1..Len(r.st.log)}
              /\ ownerPc' = AfterPartialWord(r.st.log)
    /\ executing' = executing \ {<<m_operation.id, OwnerThread>>}
    /\ UNCHANGED <<phase, rd, waitVars, pc, funnelVars, ctorVars, crashed,
                   nextId, eintr, lockOrder, execOrder, execCount, afterStop>>

\* Execute of the operations of the monitor thread
OtherExecute ==
    /\ m_operation.kind # "WriteOperation"
    /\ ServeExecuteEnd

\* the object is constructed: the operation thread serves, the monitor
\* thread runs
WriteFunnelInit ==
    /\ pc = [t \in Funnelers |->
                IF t = MainThread THEN "constructed" ELSE "idle"]
    /\ ownerPc = "serve_wait"
    /\ m_operation_thread = "joinable"
    /\ m_monitor_thread = "joinable"
    /\ m_operation_mutex = "free"
    /\ m_operation = EXIT_OPERATION
    /\ m_operation_pending = 0
    /\ m_operation_done = 0
    /\ sems_destroyed = FALSE
    /\ args_semaphore = 0
    /\ args_error = FALSE
    /\ error = "none"
    /\ myOp = [t \in Funnelers |-> NoOp]
    /\ stopOpFrom = "none"
    /\ monitorStop = FALSE
    /\ crashed = FALSE
    /\ nextId = 0
    /\ eintr = 0
    /\ lockOrder = <<>>
    /\ execOrder = <<>>
    /\ executing = {}
    /\ execCount = [i \in 1..MaxOps |-> 0]
    /\ traceIssued = {}
    /\ afterStop = [t \in Clients |-> FALSE]
    /\ MemQuiet
    /\ WaitQuiet

WriteFunnelNext ==
    \/ \E t \in CallerThreads : WriteMemoryCall(t)
    \/ Call(MonitorThread)
    \/ \E t \in Clients : DoLock(t)
    \/ \E t \in Clients : DoSet(t)
    \/ \E t \in Clients : DoPost(t)
    \/ \E t \in Clients : DoWait(t)
    \/ \E t \in Clients : DoUnlock(t)
    \/ ServeWait
    \/ ServeExecuteBegin
    \/ WriteExecute
    \/ OtherExecute
    \/ ServePost

\* the steps of the operation thread between two Executes
WriteFunnelStep ==
    \/ ServeWait
    \/ ServeExecuteBegin
    \/ ServePost

\* an Execute that has come back to ServeOperation
ExecuteReturns ==
    /\ ownerPc = "serve_executing"
    /\ ownerPc' = "serve_post"

\* the scheduler lets every thread take its next step, and the trace
\* requests of an Execute take a bounded time
WriteFunnelSpec ==
    /\ WriteFunnelInit
    /\ [][WriteFunnelNext]_vars
    /\ WF_vars(WriteFunnelStep)
    /\ WF_ownerPc(ExecuteReturns)
    /\ \A t \in Clients : WF_vars(FunnelStep(t))

\* the thread is inside the DoOperation of a WriteMemory
InWriteMemory(t) ==
    /\ myOp[t].kind = "WriteOperation"
    /\ pc[t] \in {"do_lock", "do_set", "do_post", "do_wait", "do_unlock"}

\* the requests of the last WriteMemory were made on the operation thread
\* while its caller held the mutex, that WriteMemory was submitted to the
\* funnel once and executed once, nothing was submitted while it was executed
\* and the operation thread never asks for the mutex
WriteInOneRoundTrip ==
    /\ ownerPc \in ServePositions
    /\ Len(lockOrder) <= nextId
    /\ \A e \in traceIssued :
          e[2] \in {"PTRACE_PEEKDATA", "PTRACE_POKEDATA"} => e[1] = OwnerThread
    /\ wr.valid =>
          /\ wr.holder \in CallerThreads
          /\ Cardinality({i \in 1..Len(lockOrder) : lockOrder[i] = wr.id}) = 1
          /\ Cardinality({i \in 1..Len(execOrder) : execOrder[i] = wr.id}) = 1
          /\ execCount[wr.id] = 1
    /\ (ownerPc = "serve_executing" /\ m_operation.kind = "WriteOperation") =>
          \E t \in CallerThreads :
              /\ m_operation_mutex = t
              /\ myOp[t] = m_operation
              /\ pc[t] = "do_wait"

\* C32: the read and the write back of a trailing partial word are requests
\* of the one Execute of the WriteMemory, made on the operation thread while
\* the caller holds the funnel's mutex; they are no operations of the funnel,
\* the operation thread never waits for the mutex, and every WriteMemory
\* returns to its caller.
C32_PartialWordInsideFunnel ==
    /\ []WriteInOneRoundTrip
    /\ \A t \in CallerThreads : InWriteMemory(t) ~> (pc[t] = "idle")

\* a write of one byte was executed, a peek and a poke, and has returned to
\* its caller, the only operation submitted
C32_Witness ==
    /\ wr.valid
    /\ wr.size = 1
    /\ wr.n = 1
    /\ Len(wr.log) = 2
    /\ wr.log[1].req = "PTRACE_PEEKDATA"
    /\ wr.log[2].req = "PTRACE_POKEDATA"
    /\ lockOrder = <<wr.id>>
    /\ nextId = 1
    /\ \A t \in CallerThreads : pc[t] = "idle"
    /\ m_operation_mutex = "free"

----------------------------------------------------------------------------
(* StopThread: the SIGSTOP that cannot be sent, and the resumes.           *)

\* the step is a call of StopThread whose tgkill failed
SendFailedStep ==
    /\ cl'.stops = cl.stops + 1
    /\ cl'.sendFailed

\* C34: a StopThread whose tgkill fails returns false at once: the call
\* takes no stop from the kernel, waits for none, sends no message, makes no
\* funnel call and resumes no thread, and StopThread is not left waiting.
C34_FailedSendReturns ==
    /\ [](cl.sendFailed =>
            /\ cl.stopTid = 0
            /\ cl.held.stopper = 0
            /\ cl.waiting.stopper = 0)
    /\ [][SendFailedStep =>
            cl' = [cl EXCEPT !.stops = @ + 1, !.sendFailed = TRUE]]_vars

\* the only StopThread called could not send its SIGSTOP while a stop was
\* there to be waited for
C34_Witness ==
    /\ cl.sendFailed
    /\ cl.stops = 1
    /\ cl.pending # {}
    /\ ~cl.turn.valid
    /\ cl.sent = <<>>

\* the Resume calls of the last turn of StopThread
ResumesOf(t) == {i \in 1..Len(t.ops) : t.ops[i].op = "Resume"}

\* the stop is the SIGSTOP StopThread waits for
ExpectedStop(w, tid) ==
    /\ w.pid = tid
    /\ w.si_signo = SIGSTOP
    /\ w.si_code = SI_TKILL
    /\ w.si_pid = getpid

\* the stop is a system-call stop, which MonitorSIGTRAP resumes by itself
IsSyscallStop(w) ==
    /\ ~w.exited
    /\ w.avail = "ok"
    /\ w.si_signo = SIGTRAP
    /\ w.si_code \in {SIGTRAP, SyscallStop}

\* the message of the stop, as StopThread classifies it
MessageOf(w) ==
    IF w.si_signo = SIGTRAP THEN MonitorSIGTRAP(w).message ELSE MonitorSignal(w)

\* the Resume is the one StopThread makes after it forwarded a stop of its
\* target that is neither the expected SIGSTOP nor a Limbo or an Exit
ResumeOfTarget(t, i) ==
    LET w == t.in
    IN  /\ t.ops[i] = Resume(t.tid, eResumeSignalNone)
        /\ w.pid = t.tid
        /\ ~w.exited
        /\ w.avail = "ok"
        /\ ~ExpectedStop(w, t.tid)
        /\ MessageOf(w).kind \notin {"Limbo", "Exit"}
        /\ t.msgs = <<MessageOf(w)>>

\* the Resume delivers SIGSTOP to a thread in a group-stop
ResumeOfGroupStop(t, i) ==
    /\ t.ops[i] = Resume(t.in.pid, SIGSTOP)
    /\ ~t.in.exited
    /\ t.in.avail = "EINVAL"

\* the statement as made: every Resume of StopThread is one of the two
C36_OnlyTargetResumed ==
    cl.turn.valid =>
        \A i \in ResumesOf(cl.turn) :
            ResumeOfTarget(cl.turn, i) \/ ResumeOfGroupStop(cl.turn, i)

\* C36: every Resume of a turn of StopThread(tid) is the resume with no
\* signal of tid after a stop of tid was forwarded that is neither the
\* expected SIGSTOP nor a Limbo or an Exit, or the delivery of SIGSTOP to a
\* thread in a group-stop, or the resume with no signal that MonitorSIGTRAP
\* makes of a thread, the target or another, in a system-call stop, for
\* which no message is sent when the thread is in the thread list and the
\* message of kind Invalid when it is not and no assert ends the process;
\* a turn makes one Resume at most, and none for a Limbo or an Exit.
C36_ResumesOfStopThread ==
    cl.turn.valid =>
        LET t == cl.turn
            w == t.in
        IN  /\ \A i \in ResumesOf(t) :
                  \/ ResumeOfTarget(t, i)
                  \/ ResumeOfGroupStop(t, i)
                  \/ /\ IsSyscallStop(w)
                     /\ t.ops[i] = Resume(w.pid, eResumeSignalNone)
                     /\ t.msgs = IF t.thread \/ t.asserted THEN <<>>
                                 ELSE <<InvalidMessage>>
            /\ Cardinality(ResumesOf(t)) <= 1
            /\ (w.exited \/ (w.avail = "ok" /\ MessageOf(w).kind \in {"Limbo", "Exit"}))
                  => ResumesOf(t) = {}

\* StopThread took the system-call stop of a thread that is not its target,
\* and resumed it
C36_Witness ==
    /\ cl.turn.valid
    /\ IsSyscallStop(cl.turn.in)
    /\ cl.turn.in.pid # cl.turn.tid
    /\ cl.turn.in.pid \in cl.threads
    /\ cl.turn.ops = <<GetSignalInfo(cl.turn.in.pid),
                       Resume(cl.turn.in.pid, eResumeSignalNone)>>
    /\ cl.turn.msgs = <<>>
    /\ ~cl.turn.asserted

----------------------------------------------------------------------------
(* The rendezvous of the constructor with the bootstrap.                   *)

\* Launch or Attach has returned and the operation thread has gone on
BootstrapFinished == ownerPc \notin {"notstarted", "bootstrap"}

\* the constructor's sem_wait(&args->m_semaphore) has returned 0, and the
\* constructor has tested args->m_error
CtorPastWait ==
    /\ ownerPc # "notstarted"
    /\ pc[MainThread] \notin {"ctor_start", "ctor_wait"}

\* the posts of args->m_semaphore so far: those taken by the constructor and
\* those still on the semaphore
PostsOfBootstrap == args_semaphore + (IF CtorPastWait THEN 1 ELSE 0)

\* C33: once the bootstrap has returned, with success or not, the semaphore
\* of the arguments was posted once, and before that it was not posted; the
\* constructor tests the bootstrap's error after it took that post; the
\* operation thread waits for and executes operations, and the monitor
\* thread is started, only after the post of a bootstrap that succeeded.
C33_BootstrapPostedOnce ==
    ~crashed =>
        /\ PostsOfBootstrap = IF BootstrapFinished THEN 1 ELSE 0
        /\ CtorPastWait => BootstrapFinished
        /\ args_error => BootstrapFinished
        /\ ownerPc \in ServePositions => ~args_error
        /\ (m_monitor_thread = "joinable" \/ pc[MonitorThread] # "notstarted")
              => (CtorPastWait /\ ~args_error)
        /\ (execOrder # <<>> \/ m_operation_done > 0)
              => (BootstrapFinished /\ ~args_error)

\* the bootstrap succeeded: the post was taken, the monitor thread was
\* started and an operation was executed
C33_Witness ==
    /\ ~crashed
    /\ ~args_error
    /\ args_semaphore = 0
    /\ CtorPastWait
    /\ m_monitor_thread = "joinable"
    /\ execOrder # <<>>

----------------------------------------------------------------------------
(* The attach that fails, and the constructor that waits for it.           *)

\* the constructor of the attach shape next to Attach on the operation
\* thread: its wait, the start of the monitor thread, StopOpThread
AttachCtorNext ==
    \/ AttachNext
    \/ CtorWait
    \/ CtorStartMonitor
    \/ CtorStartMonitorFails
    \/ StopOpThread
    \/ DoLock(MainThread)
    \/ DoSet(MainThread)
    \/ DoPost(MainThread)

AttachCtorSpec == AttachInit /\ [][AttachCtorNext]_vars

\* Attach has set args->m_error
AttachFailed ==
    /\ boot.mode = "attach"
    /\ boot.pc \in {"finish", "returned"}
    /\ boot.err # "none"

\* a failed Attach has published no pid and sent no message
FailedAttachUnpublished ==
    AttachFailed =>
        /\ boot.m_pid = LLDB_INVALID_PROCESS_ID
        /\ boot.sent = <<>>
        /\ \A i \in 1..Len(boot.log) : boot.log[i].step \notin {"m_pid", "Trace"}

\* the constructor is in StopOpThread, waiting for an operation thread that
\* has returned
CtorBlocked ==
    /\ pc[MainThread] = "do_wait"
    /\ ownerPc = "returned"
    /\ m_operation_done = 0

\* C37: when Attach fails the pid stays invalid and no Trace is sent, and
\* the constructor comes to report the error of Attach: it is not left
\* waiting, and once it has returned its error is that of the bootstrap.
C37_FailedAttachReported ==
    /\ FailedAttachUnpublished
    /\ AttachFailed =>
          /\ ~CtorBlocked
          /\ pc[MainThread] = "constructed" => error = "bootstrap"

----------------------------------------------------------------------------
(* The JIT loader (src/source/Plugins/JITLoader/GDB/JITLoaderGDB.cpp).     *)

\* the calls made of the loader over a run
MaxJitCalls == 3
\* the most entries the list of the descriptor holds
MaxEntries == 2
\* the symbol-file addresses the entries name
MaxSymfiles == 2

LLDB_INVALID_BREAK_ID == 0
LLDB_INVALID_ADDRESS == -1
\* jit_actions_t
JIT_NOACTION == 0
JIT_REGISTER_FN == 1
JIT_UNREGISTER_FN == 2

\* the load addresses GetSymbolAddress finds for __jit_debug_register_code
\* and __jit_debug_descriptor
HookAddr == 64
DescAddr == 128

Symfiles == 1..MaxSymfiles
\* the values of action_flag the inferior may have stored: the three of
\* jit_actions_t and one that is none of them
ActionFlags == {JIT_NOACTION, JIT_REGISTER_FN, JIT_UNREGISTER_FN,
                JIT_UNREGISTER_FN + 1}

\* a jit_code_entry as the loader meets it: whether DoReadMemory reads it,
\* its symfile_addr, and whether ReadModuleFromMemory gives a module with an
\* object file
JitEntries == [readOk : BOOLEAN, symfile_addr : Symfiles, loadOk : BOOLEAN]

EntryLists(n) == UNION {[1..k -> JitEntries] : k \in 0..n}

\* the descriptor in the inferior: whether it is read, its action_flag and
\* the entries from first_entry on (all entries) or the relevant_entry
Descriptors(flags, n) ==
    [readOk : BOOLEAN, action_flag : flags, entries : EntryLists(n)]

\* what GetSymbolAddress finds in the module list
SymbolsFound == [hook : BOOLEAN, desc : BOOLEAN]

\* the loader after its constructor, in a process that is alive
JitLoaded ==
    [mode |-> "jit", m_jit_break_id |-> LLDB_INVALID_BREAK_ID,
     m_jit_descriptor_addr |-> LLDB_INVALID_ADDRESS,
     m_jit_objects |-> <<>>, images |-> {}, breakpoints |-> {},
     nextModule |-> 1, live |-> {}, lookups |-> 0, alive |-> TRUE]

\* the mutant: the breakpoint counts as never set
DidSetJITBreakpointNever(j) ==
    FALSE

\* return LLDB_BREAK_ID_IS_VALID(m_jit_break_id);
DidSetJITBreakpoint(j) ==
    j.m_jit_break_id # LLDB_INVALID_BREAK_ID

\* m_jit_objects.insert(std::make_pair(symbolfile_addr, module_sp)): an
\* address that has an entry keeps it
Insert(m, k, v) ==
    IF k \in DOMAIN m THEN m
    ELSE [x \in DOMAIN m \cup {k} |-> IF x = k THEN v ELSE m[x]]

\* jit_action == JIT_REGISTER_FN: the module read from memory is entered in
\* the map and appended to the images of the target
Register(j, e) ==
    IF e.loadOk
    THEN [j EXCEPT !.m_jit_objects = Insert(@, e.symfile_addr, j.nextModule),
                   !.images = @ \cup {j.nextModule},
                   !.nextModule = @ + 1,
                   !.live = @ \cup {e.symfile_addr}]
    ELSE j

\* the mutant: the entry is erased and its module stays in the images
UnregisterKeepsModule(j, e) ==
    [j EXCEPT !.m_jit_objects = IF e.symfile_addr \in DOMAIN @
                                THEN Erased(@, e.symfile_addr) ELSE @,
              !.live = @ \ {e.symfile_addr}]

\* jit_action == JIT_UNREGISTER_FN: it = m_jit_objects.find(symbolfile_addr);
\* if found, module_list.Remove(it->second) and m_jit_objects.erase(it)
Unregister(j, e) ==
    IF e.symfile_addr \in DOMAIN j.m_jit_objects
    THEN [j EXCEPT !.images = @ \ {j.m_jit_objects[e.symfile_addr]},
                   !.m_jit_objects = Erased(@, e.symfile_addr),
                   !.live = @ \ {e.symfile_addr}]
    ELSE [j EXCEPT !.live = @ \ {e.symfile_addr}]

Returned(j, asserted) == [j |-> j, ret |-> FALSE, asserted |-> asserted]

RECURSIVE ReadEntries(_, _, _, _, _)
\* while (jit_relevant_entry != 0): the entry is read, the action is taken,
\* and the next entry is next_entry when all entries are read
ReadEntries(j, jit_action, entries, all_entries, nd) ==
    IF entries = <<>> THEN Returned(j, FALSE)
    ELSE LET e == Head(entries)
         IN  IF ~e.readOk THEN Returned(j, FALSE)
             ELSE IF jit_action = JIT_REGISTER_FN
             THEN IF all_entries
                  THEN ReadEntries(Register(j, e), jit_action, Tail(entries),
                                   all_entries, nd)
                  ELSE Returned(Register(j, e), FALSE)
             ELSE IF jit_action = JIT_UNREGISTER_FN
             THEN Returned(Unregister(j, e), FALSE)
             ELSE IF jit_action = JIT_NOACTION
             THEN Returned(j, FALSE)
             ELSE Returned(j, ~nd)

\* JITLoaderGDB::ReadJITDescriptorImpl(all_entries): the loader after it, the
\* value returned, and whether assert(false) was reached
ReadJITDescriptorImpl(j, all_entries, d, nd) ==
    IF j.m_jit_descriptor_addr = LLDB_INVALID_ADDRESS THEN Returned(j, FALSE)
    ELSE IF ~d.readOk THEN Returned(j, FALSE)
    ELSE ReadEntries(j, IF all_entries THEN JIT_REGISTER_FN ELSE d.action_flag,
                     d.entries, all_entries, nd)

\* the id of the breakpoint CreateBreakpoint(jit_addr, true, false) makes:
\* internal breakpoints are numbered -1, -2, ...
NewBreakId(j) == 0 - (Cardinality(j.breakpoints) + 1)

\* JITLoaderGDB::SetJITBreakpoint(module_list)
SetJITBreakpoint(j, found, d, nd) ==
    IF DidSetJITBreakpoint(j) THEN Returned(j, FALSE)
    ELSE LET looked == [j EXCEPT !.lookups = @ + 1]
         IN  IF ~found.hook THEN Returned(looked, FALSE)
             ELSE IF ~found.desc
             THEN Returned([looked EXCEPT !.m_jit_descriptor_addr =
                                             LLDB_INVALID_ADDRESS], FALSE)
             ELSE ReadJITDescriptorImpl(
                      [looked EXCEPT !.m_jit_descriptor_addr = DescAddr,
                                     !.breakpoints = @ \cup {NewBreakId(j)},
                                     !.m_jit_break_id = NewBreakId(j)],
                      TRUE, d, nd)

\* JITLoaderGDB::ModulesDidLoad(module_list)
ModulesDidLoadOf(j, found, d, nd) ==
    IF ~DidSetJITBreakpoint(j) /\ j.alive
    THEN SetJITBreakpoint(j, found, d, nd)
    ELSE Returned(j, FALSE)

\* the descriptors a call that looks for the symbols may come to read: it
\* reads the descriptor only when it has set the breakpoint
DescriptorsRead(j, found) ==
    IF ~DidSetJITBreakpoint(j) /\ found.hook /\ found.desc
    THEN Descriptors({JIT_NOACTION}, MaxEntries)
    ELSE {[readOk |-> FALSE, action_flag |-> JIT_NOACTION, entries |-> <<>>]}

jitFrame == <<ndebug, cb, cl, boot, rg, memVars, funnelVars, ctorVars,
              histVars>>

\* the loader after a call: what the call was and what the loader was before
AfterCall(op, d, r) ==
    [jit EXCEPT !.loader = r.j, !.calls = @ + 1,
                !.last = [op |-> op, before |-> jit.loader,
                          ret |-> r.ret, asserted |-> r.asserted,
                          read |-> d.readOk, action_flag |-> d.action_flag,
                          relevant |-> IF d.entries = <<>> THEN <<>>
                                       ELSE <<Head(d.entries)>>]]

\* a call of the loader that ends the process when an assert fails
JitCall(op, d, r) ==
    /\ jit' = AfterCall(op, d, r)
    /\ IF r.asserted
       THEN ProcessDies
       ELSE UNCHANGED <<pc, ownerPc, crashed>>
    /\ UNCHANGED jitFrame

\* no call of the loader has been made since the process changed
NoJitCall == [op |-> "none"]

\* JITLoaderGDB::DidAttach()
DidAttach ==
    /\ jit.mode = "jit"
    /\ ~crashed
    /\ jit.calls < MaxJitCalls
    /\ \E found \in SymbolsFound :
       \E d \in DescriptorsRead(jit.loader, found) :
          JitCall("DidAttach", d, SetJITBreakpoint(jit.loader, found, d, ndebug))

\* JITLoaderGDB::DidLaunch()
DidLaunch ==
    /\ jit.mode = "jit"
    /\ ~crashed
    /\ jit.calls < MaxJitCalls
    /\ \E found \in SymbolsFound :
       \E d \in DescriptorsRead(jit.loader, found) :
          JitCall("DidLaunch", d, SetJITBreakpoint(jit.loader, found, d, ndebug))

\* JITLoaderGDB::ModulesDidLoad(module_list)
ModulesDidLoad ==
    /\ jit.mode = "jit"
    /\ ~crashed
    /\ jit.calls < MaxJitCalls
    /\ \E found \in SymbolsFound :
       \E d \in DescriptorsRead(jit.loader, found) :
          JitCall("ModulesDidLoad", d,
                  ModulesDidLoadOf(jit.loader, found, d, ndebug))

\* JITLoaderGDB::JITDebugBreakpointHit: the inferior has reached the
\* breakpoint the loader has set; return instance->ReadJITDescriptor(false)
JITDebugBreakpointHit ==
    /\ jit.mode = "jit"
    /\ ~crashed
    /\ jit.calls < MaxJitCalls
    /\ jit.loader.alive
    /\ DidSetJITBreakpoint(jit.loader)
    /\ \E d \in Descriptors(ActionFlags, 1) :
          JitCall("JITDebugBreakpointHit", d,
                  ReadJITDescriptorImpl(jit.loader, FALSE, d, ndebug))

\* the inferior exits
JitProcessExits ==
    /\ jit.mode = "jit"
    /\ ~crashed
    /\ jit.loader.alive
    /\ jit' = [jit EXCEPT !.loader.alive = FALSE, !.last = NoJitCall]
    /\ UNCHANGED <<jitFrame, pc, ownerPc, crashed>>

JitInit ==
    /\ Monitoring
    /\ MemQuiet
    /\ ndebug \in BOOLEAN
    /\ cb = NoCallback
    /\ cl = NoClone
    /\ boot = NoBoot
    /\ rg = NoRegs
    /\ jit = [mode |-> "jit", loader |-> JitLoaded, calls |-> 0,
              last |-> NoJitCall]

JitNext ==
    \/ DidAttach
    \/ DidLaunch
    \/ ModulesDidLoad
    \/ JITDebugBreakpointHit
    \/ JitProcessExits

JitSpec == JitInit /\ [][JitNext]_vars

----------------------------------------------------------------------------
(* The properties of the JIT loader (JitSpec).                             *)

\* the loader has a valid breakpoint id
BreakpointSet(j) == j.m_jit_break_id # LLDB_INVALID_BREAK_ID

\* the last call was one of the three that may set the breakpoint
LastMaySet == jit.last.op \in {"DidAttach", "DidLaunch", "ModulesDidLoad"}

\* C39: the loader creates one breakpoint at most, and its id is valid
\* exactly when it has created it.  A DidAttach, DidLaunch or ModulesDidLoad
\* of a loader whose breakpoint is set creates none and leaves the id, the
\* descriptor address and all else of the loader as they were; a breakpoint
\* hit leaves the id and the address as they were.  ModulesDidLoad looks for
\* the symbols only when the breakpoint is not set and the process is alive.
C39_BreakpointSetOnce ==
    jit.mode = "jit" =>
        LET j == jit.loader
            l == jit.last
        IN  /\ Cardinality(j.breakpoints) <= 1
            /\ j.breakpoints =
                  IF BreakpointSet(j) THEN {j.m_jit_break_id} ELSE {}
            /\ BreakpointSet(j) <=> j.m_jit_descriptor_addr # LLDB_INVALID_ADDRESS
            /\ (LastMaySet /\ BreakpointSet(l.before)) => j = l.before
            /\ (l.op = "JITDebugBreakpointHit") =>
                  /\ j.m_jit_break_id = l.before.m_jit_break_id
                  /\ j.m_jit_descriptor_addr = l.before.m_jit_descriptor_addr
                  /\ j.breakpoints = l.before.breakpoints
            /\ (l.op = "ModulesDidLoad" /\ j.lookups # l.before.lookups) =>
                  /\ ~BreakpointSet(l.before)
                  /\ l.before.alive
            /\ (l.op = "ModulesDidLoad" /\ ~l.before.alive) => j = l.before

\* the breakpoint was set by an earlier call, with entries registered, and
\* the last call was a ModulesDidLoad in the process that is alive
C39_Witness ==
    /\ jit.mode = "jit"
    /\ jit.last.op = "ModulesDidLoad"
    /\ BreakpointSet(jit.last.before)
    /\ jit.last.before.alive
    /\ jit.last.before.images # {}
    /\ jit.loader = jit.last.before

\* the last call was a breakpoint hit that read the descriptor and the
\* relevant entry, with this action
LastHitWith(action) ==
    /\ jit.last.op = "JITDebugBreakpointHit"
    /\ jit.last.read
    /\ jit.last.action_flag = action
    /\ jit.last.relevant # <<>>
    /\ jit.last.relevant[1].readOk

\* C40: the map has an entry for an address exactly when the address was
\* registered with a module that loaded and was not unregistered since.  An
\* unregister of an address that has an entry removes the entry and takes
\* the module of the entry out of the images of the target, and nothing
\* else; an unregister of an address that has none leaves the map and the
\* images as they were.  Every call that returns returns false, and the one
\* that does not is the assert on an action flag that is none of the three.
C40_JitObjectMap ==
    jit.mode = "jit" =>
        LET j == jit.loader
            l == jit.last
        IN  /\ DOMAIN j.m_jit_objects = j.live
            /\ \A a \in DOMAIN j.m_jit_objects : j.m_jit_objects[a] \in j.images
            /\ LastHitWith(JIT_UNREGISTER_FN) =>
                  LET a == l.relevant[1].symfile_addr
                      b == l.before
                  IN  IF a \in DOMAIN b.m_jit_objects
                      THEN /\ a \notin DOMAIN j.m_jit_objects
                           /\ j.m_jit_objects = Erased(b.m_jit_objects, a)
                           /\ b.m_jit_objects[a] \in b.images
                           /\ j.images = b.images \ {b.m_jit_objects[a]}
                      ELSE /\ j.m_jit_objects = b.m_jit_objects
                           /\ j.images = b.images
            /\ l.op # "none" => l.ret = FALSE
            /\ (l.op # "none" /\ l.asserted) <=>
                  (/\ LastHitWith(JIT_UNREGISTER_FN + 1)
                   /\ ~ndebug)
            /\ crashed <=> (l.op # "none" /\ l.asserted)

\* an address that has an entry was unregistered while another address
\* keeps its entry
C40_Witness ==
    /\ jit.mode = "jit"
    /\ LastHitWith(JIT_UNREGISTER_FN)
    /\ jit.last.relevant[1].symfile_addr \in DOMAIN jit.last.before.m_jit_objects
    /\ jit.loader.m_jit_objects # <<>>
    /\ jit.loader.images # jit.last.before.images

====
